---- MODULE Spec2Model ----
(***************************************************************************)
(* Discord -> Telegram forwarding bridge: the sink client                  *)
(* (app/services/telegram_service.py), the rate limiter                    *)
(* (app/utils/rate_limiter.py), and the orchestrator's ingress queue with  *)
(* the gateway dispatch (app/services/message_processor.py,                *)
(* app/services/discord_service.py).                                       *)
(*                                                                         *)
(* Scheduling model.  The pipeline runs as coroutines on one event loop;   *)
(* every `await` and every call to an injected collaborator (the bot, the  *)
(* key/value store) is a point where another coroutine, the poller thread  *)
(* or the remote side may act, so each is a step boundary.  The one        *)
(* exception is the tail of send_message (sendMessage, the mapping update, *)
(* the blob write): its only await is the store write, which is issued     *)
(* with the blob serialized at the call and is modelled as completing      *)
(* inside the step.                                                        *)
(***************************************************************************)
EXTENDS Integers, Sequences, FiniteSets, TLC

(***************************************************************************)
(* Bounds of the model                                                     *)
(***************************************************************************)
MaxSends == 2          \* send_message invocations per behaviour
MaxTopics == 3         \* forum topics the sink creates per behaviour
MaxRestarts == 1       \* process restarts per behaviour
MaxAcquires == 4       \* acquire calls per behaviour
MaxFeedbacks == 1      \* record_success / record_error calls per behaviour
MaxAdvances == 2       \* clock steps per behaviour
TicksPerSecond == 2    \* resolution of the clock
MaxOffers == 2         \* queue_message calls per behaviour
MaxDispatches == 1     \* MESSAGE_CREATE dispatches per behaviour
MaxPushes == 3         \* messages given to add_to_batch per behaviour
MaxBatches == 3        \* send_messages_batch calls per behaviour
MaxBatchLen == 3       \* length of a list passed to send_messages_batch directly
message_batch_size == 2    \* settings.message_batch_size
MaxTokens == 3         \* length of settings.discord_tokens
MaxPulls == 7          \* get_recent_messages calls per behaviour
MaxConnects == 2       \* connection attempts per token
MaxErrorRun == 24      \* record_error calls counted in a row
MaxFeedbackAcquires == 2   \* acquire calls made between feedback calls

Senders == {"caller1", "caller2"}  \* concurrent callers of send_message
DrainTask == "drain"               \* the ingress drain loop, the other caller
Tasks == {DrainTask} \cup Senders
Guilds == {"Alpha", "Beta"}
Timestamps == {1, 2}               \* message timestamps
None == 0              \* Python's None for topic ids and message ids
Free == "free"         \* _async_lock not held

VARIABLES
    \* ---- sink client (TelegramService) ----
    use_topics,        \* settings.use_topics
    sink_state,        \* "new" after the constructor, "ready" / "failed" after initialize()
    server_topics,     \* guild -> topic id, None when absent
    message_mappings,  \* timestamp key -> sink message id, None when absent
    async_lock,        \* holder of _async_lock, Free when not held
    save_tasks,        \* _save_persistent_data tasks scheduled by create_task, not yet run
    tasks,             \* per caller: position in send_message and its locals
    rate_limiter,      \* the limiter object: buckets and adaptive feedback counters
    \* ---- remote side and store ----
    chat,              \* what getChat reports: "forum", "group" or "other"
    alive,             \* topic ids that exist on the sink
    topics_created,    \* topics the sink has created so far (its id counter)
    sent,              \* log of successful sendMessage calls
    blob,              \* the persisted document, NoBlob when none was written
    store_up,          \* whether the store accepts reads and writes
    \* ---- history ----
    calls,             \* createForumTopic / getForumTopic calls of this process run
    started,           \* send_message invocations so far
    restarts

sinkVars == <<use_topics, sink_state, server_topics, message_mappings, async_lock,
              save_tasks, tasks, rate_limiter, chat, alive, sent, blob, store_up,
              calls, started, restarts, topics_created>>


NoBlob == [present |-> FALSE, topics |-> [g \in Guilds |-> None],
           messages |-> [ts \in Timestamps |-> None]]

\* A caller's locals in send_message, and what its current call has done so far.
IdleTask == [pc |-> "idle", g |-> "Alpha", ts |-> 1, topic_id |-> None,
             result |-> FALSE, mid |-> None, stale |-> None, create_failed |-> FALSE,
             made_create |-> FALSE, called_send |-> FALSE]

NoCalls == [create |-> [g \in Guilds |-> 0], created |-> [g \in Guilds |-> 0],
            probe_failed |-> [g \in Guilds |-> FALSE], topic_api |-> 0,
            threads_used |-> FALSE]

(***************************************************************************)
(* Rate limiter feedback (RateLimiter.record_success / record_error).      *)
(* adaptive_multiplier is kept in hundredths.  The code keeps it as a      *)
(* double that is only ever changed by adding 0.01 or subtracting 0.1, so  *)
(* the stored value can lie a few units in the last place off the decimal  *)
(* value; may_exceed says that it can lie above it.  A value clamped to    *)
(* 1.2, or clamped up to 0.5, is the literal itself.                       *)
(***************************************************************************)
Min(a, b) == IF a <= b THEN a ELSE b
Max(a, b) == IF a >= b THEN a ELSE b

NewLimiter(per_second, per_minute) ==
    [requests_per_second |-> per_second, requests_per_minute |-> per_minute,
     buckets |-> <<>>, success_count |-> 0, error_count |-> 0,
     adaptive_multiplier |-> 100, may_exceed |-> FALSE]

\* A record_success that raises the multiplier without the ceiling.
record_success_unclamped(l) ==
    LET s == l.success_count + 1
    IN  IF s > 100 /\ l.error_count < 5
        THEN [l EXCEPT !.adaptive_multiplier = @ + 1,
                       !.success_count = 0, !.error_count = 0]
        ELSE [l EXCEPT !.success_count = s]

\* A record_error that only counts.
record_error_counted(l) == [l EXCEPT !.error_count = @ + 1]

\* A record_success that raises the multiplier one success early and keeps
\* the error count.
record_success_early(l) ==
    LET s == l.success_count + 1
    IN  IF s >= 100 /\ l.error_count < 5
        THEN [l EXCEPT !.adaptive_multiplier = Min(120, @ + 1),
                       !.may_exceed = l.adaptive_multiplier + 1 < 120,
                       !.success_count = 0]
        ELSE [l EXCEPT !.success_count = s]

record_success(l) ==
    LET s == l.success_count + 1
    IN  IF s > 100 /\ l.error_count < 5
        THEN [l EXCEPT !.adaptive_multiplier = Min(120, @ + 1),
                       !.may_exceed = l.adaptive_multiplier + 1 < 120,
                       !.success_count = 0, !.error_count = 0]
        ELSE [l EXCEPT !.success_count = s]

record_error(l) ==
    LET e == l.error_count + 1
    IN  IF e > 3
        THEN [l EXCEPT !.adaptive_multiplier = Max(50, @ - 10),
                       !.may_exceed = l.adaptive_multiplier - 10 >= 50,
                       !.success_count = 0, !.error_count = 0]
        ELSE [l EXCEPT !.error_count = e]

(***************************************************************************)
(* Sink client                                                             *)
(***************************************************************************)
\* TelegramService.__init__ and the world it starts in.
SinkConstructed ==
    /\ server_topics = [g \in Guilds |-> None]
    /\ message_mappings = [ts \in Timestamps |-> None]
    /\ async_lock = Free
    /\ save_tasks = 0
    /\ tasks = [t \in Tasks |-> IdleTask]
    /\ rate_limiter = NewLimiter(None, 20)
    /\ alive = {}
    /\ topics_created = 0
    /\ sent = <<>>
    /\ blob = NoBlob
    /\ store_up = TRUE
    /\ calls = NoCalls
    /\ started = 0
    /\ restarts = 0

SinkInit ==
    /\ use_topics \in BOOLEAN
    /\ chat \in {"forum", "group", "other"}
    /\ sink_state = "new"
    /\ SinkConstructed

\* _load_persistent_data: a missing document or a failing store loads nothing.
LoadedTopics == IF store_up /\ blob.present THEN blob.topics ELSE server_topics
LoadedMessages == IF store_up /\ blob.present THEN blob.messages ELSE message_mappings

\* _verify_chat_access: a forum and a plain (super)group are both accepted;
\* neither branch changes use_topics.
verify_chat_access == chat \in {"forum", "group"}

\* TelegramService.initialize: getMe, load the blob, verify chat access.
initialize(getme_ok) ==
    /\ sink_state = "new"
    /\ IF getme_ok
       THEN /\ server_topics' = LoadedTopics
            /\ message_mappings' = LoadedMessages
            /\ sink_state' = IF verify_chat_access THEN "ready" ELSE "failed"
       ELSE /\ sink_state' = "failed"
            /\ UNCHANGED <<server_topics, message_mappings>>
    /\ UNCHANGED <<use_topics, async_lock, save_tasks, tasks, rate_limiter, chat,
                   alive, sent, blob, store_up, calls, started, restarts, topics_created>>

\* _save_persistent_data: the whole document is written, a failure is logged.
Snapshot(topics, messages) == [present |-> TRUE, topics |-> topics, messages |-> messages]
save_persistent_data(topics, messages) ==
    IF store_up THEN Snapshot(topics, messages) ELSE blob

\* The save scheduled by asyncio.create_task in _get_or_create_topic.
RunSaveTask ==
    /\ save_tasks > 0
    /\ save_tasks' = save_tasks - 1
    /\ blob' = save_persistent_data(server_topics, message_mappings)
    /\ UNCHANGED <<use_topics, sink_state, server_topics, message_mappings, async_lock,
                   tasks, rate_limiter, chat, alive, sent, store_up, calls, started,
                   restarts, topics_created>>

\* send_message is entered by a caller with a message (guild, timestamp).
EnterSend(t, g, ts) ==
    /\ sink_state = "ready"
    /\ tasks[t].pc \in {"idle", "done"}
    /\ started < MaxSends
    /\ started' = started + 1
    /\ tasks' = [tasks EXCEPT ![t] = [IdleTask EXCEPT !.pc = "wait", !.g = g, !.ts = ts]]

StartSend(t, g, ts) ==
    /\ t \in Senders
    /\ EnterSend(t, g, ts)
    /\ UNCHANGED <<use_topics, sink_state, server_topics, message_mappings, async_lock,
                   save_tasks, rate_limiter, chat, alive, sent, blob, store_up, calls,
                   restarts, topics_created>>

\* The exception handler of send_message: record_error, return False.
SendFails(t) ==
    /\ tasks' = [tasks EXCEPT ![t].pc = "done", ![t].result = FALSE]
    /\ rate_limiter' = record_error(rate_limiter)

\* await rate_limiter.wait_if_needed("telegram_send"): a slot is acquired, or
\* the wait times out and raises (the bucket arithmetic is in SpecLimiter).
WaitIfNeeded(t, acquired) ==
    /\ tasks[t].pc = "wait"
    /\ IF acquired
       THEN /\ tasks' = [tasks EXCEPT ![t].pc = "topic"]
            /\ UNCHANGED rate_limiter
       ELSE SendFails(t)
    /\ UNCHANGED <<use_topics, sink_state, server_topics, message_mappings, async_lock,
                   save_tasks, chat, alive, sent, blob, store_up, calls, started,
                   restarts, topics_created>>

\* _get_or_create_topic without topics: returns None before taking the lock.
TopicsOff(t) ==
    /\ tasks[t].pc = "topic"
    /\ ~use_topics
    /\ tasks' = [tasks EXCEPT ![t].pc = "send", ![t].topic_id = None]
    /\ UNCHANGED <<use_topics, sink_state, server_topics, message_mappings, async_lock,
                   save_tasks, rate_limiter, chat, alive, sent, blob, store_up, calls,
                   started, restarts, topics_created>>

\* A lock that never excludes anybody.
LockAlwaysFree == TRUE

\* async with self._async_lock
LockFree == async_lock = Free

\* Entering the critical section and the cache lookup that follows at once.
LockAndLookup(t) ==
    /\ tasks[t].pc = "topic"
    /\ use_topics
    /\ LockFree
    /\ async_lock' = t
    /\ tasks' = [tasks EXCEPT
                   ![t].pc = IF server_topics[tasks[t].g] # None THEN "probe" ELSE "create",
                   ![t].topic_id = server_topics[tasks[t].g]]
    /\ UNCHANGED <<use_topics, sink_state, server_topics, message_mappings, save_tasks,
                   rate_limiter, chat, alive, sent, blob, store_up, calls, started,
                   restarts, topics_created>>

Unlock(t) == IF async_lock = t THEN Free ELSE async_lock

\* _verify_topic_exists: getForumTopic; any exception counts as "missing".
VerifyTopicExists(t, reachable) ==
    /\ tasks[t].pc = "probe"
    /\ LET g == tasks[t].g
           exists == reachable /\ tasks[t].topic_id \in alive
       IN  /\ calls' = [calls EXCEPT !.topic_api = Min(MaxSends, @ + 1),
                                     !.probe_failed[g] = @ \/ ~exists]
           /\ IF exists
              THEN /\ tasks' = [tasks EXCEPT ![t].pc = "send"]
                   /\ async_lock' = Unlock(t)
              ELSE /\ tasks' = [tasks EXCEPT ![t].pc = "drop",
                                             ![t].stale = tasks[t].topic_id]
                   /\ UNCHANGED async_lock
    /\ UNCHANGED <<use_topics, sink_state, server_topics, message_mappings, save_tasks,
                   rate_limiter, chat, alive, sent, blob, store_up, started, restarts, topics_created>>

\* A removal that leaves the stale entry in the cache.
RemoveTopicKept(topics, g) == topics

RemoveTopic(topics, g) == [topics EXCEPT ![g] = None]

\* del self.server_topics[server_name]; a missing key raises KeyError, which
\* leaves the lock block and ends in send_message's exception handler.
DropStaleTopic(t) ==
    /\ tasks[t].pc = "drop"
    /\ async_lock' = IF server_topics[tasks[t].g] = None THEN Unlock(t) ELSE async_lock
    /\ IF server_topics[tasks[t].g] # None
       THEN /\ server_topics' = RemoveTopic(server_topics, tasks[t].g)
            /\ tasks' = [tasks EXCEPT ![t].pc = "create"]
            /\ UNCHANGED rate_limiter
       ELSE /\ SendFails(t)
            /\ UNCHANGED server_topics
    /\ UNCHANGED <<use_topics, sink_state, message_mappings, save_tasks, chat, alive,
                   sent, blob, store_up, calls, started, restarts, topics_created>>

\* create_forum_topic inside the lock.  On success the id is cached and a save
\* is scheduled with create_task; on failure None is returned.  The sink hands
\* out topic ids in increasing order and creates topics only in a forum chat.
\* A cache update that is lost.
CacheTopicLost(topics, g, id) == topics

CacheTopic(topics, g, id) == [topics EXCEPT ![g] = id]

\* A failure handler that falls back to the topic id the probe rejected.
CreateFailureKeepsStale(t) == tasks[t].stale

\* except Exception: ... return None
CreateFailureResult(t) == None

CreateTopic(t, ok) ==
    /\ tasks[t].pc = "create"
    /\ LET g == tasks[t].g
           success == ok /\ chat = "forum" /\ topics_created < MaxTopics
           id == topics_created + 1
       IN  IF success
           THEN /\ topics_created' = id
                /\ alive' = alive \cup {id}
                /\ server_topics' = CacheTopic(server_topics, g, id)
                /\ save_tasks' = save_tasks + 1
                /\ tasks' = [tasks EXCEPT ![t].pc = "send", ![t].topic_id = id,
                                          ![t].made_create = TRUE]
                /\ calls' = [calls EXCEPT !.topic_api = Min(MaxSends, @ + 1),
                                          !.create[g] = @ + 1, !.created[g] = @ + 1]
           ELSE /\ tasks' = [tasks EXCEPT ![t].pc = "send",
                                          ![t].topic_id = CreateFailureResult(t),
                                          ![t].made_create = TRUE,
                                          ![t].create_failed = TRUE]
                /\ calls' = [calls EXCEPT !.topic_api = Min(MaxSends, @ + 1),
                                          !.create[g] = @ + 1]
                /\ UNCHANGED <<topics_created, alive, server_topics, save_tasks>>
    /\ async_lock' = Unlock(t)
    /\ UNCHANGED <<use_topics, sink_state, message_mappings, rate_limiter, chat, sent,
                   blob, store_up, started, restarts>>

\* message_thread_id=topic_id if self.settings.use_topics else None
ThreadId(t) == IF use_topics THEN tasks[t].topic_id ELSE None

\* self.message_mappings[str(message.timestamp)] = sent_message.message_id
\* A mapping update that is lost.
TrackMessageLost(mappings, ts, mid) == mappings

TrackMessage(mappings, ts, mid) == [mappings EXCEPT ![ts] = mid]

\* bot.send_message and what follows it.  The sink rejects a thread id that
\* does not exist.  On success: record the mapping, write the blob,
\* record_success, return True.  On an exception: record_error, return False.
SendMessage(t, ok) ==
    /\ tasks[t].pc = "send"
    /\ LET thread == ThreadId(t)
           success == ok /\ (thread = None \/ thread \in alive)
           mid == Len(sent) + 1
           mappings == TrackMessage(message_mappings, tasks[t].ts, mid)
       IN  IF success
           THEN /\ sent' = Append(sent, [ts |-> tasks[t].ts, g |-> tasks[t].g,
                                         thread |-> thread, mid |-> mid])
                /\ message_mappings' = mappings
                /\ blob' = save_persistent_data(server_topics, mappings)
                /\ rate_limiter' = record_success(rate_limiter)
                /\ tasks' = [tasks EXCEPT ![t].pc = "done", ![t].result = TRUE,
                                          ![t].mid = mid, ![t].called_send = TRUE]
                /\ calls' = [calls EXCEPT !.threads_used = @ \/ thread # None]
           ELSE /\ tasks' = [tasks EXCEPT ![t].pc = "done", ![t].result = FALSE,
                                          ![t].called_send = TRUE]
                /\ rate_limiter' = record_error(rate_limiter)
                /\ UNCHANGED <<sent, message_mappings, blob, calls>>
    /\ UNCHANGED <<use_topics, sink_state, server_topics, async_lock, save_tasks, chat,
                   alive, store_up, started, restarts, topics_created>>

(***************************************************************************)
(* Remote side, store and process lifetime                                 *)
(***************************************************************************)
\* A forum topic is deleted on the sink (by an administrator).
DeleteTopic(id) ==
    /\ id \in alive
    /\ alive' = alive \ {id}
    /\ UNCHANGED <<use_topics, sink_state, server_topics, message_mappings, async_lock,
                   save_tasks, tasks, rate_limiter, chat, sent, blob, store_up, calls,
                   started, restarts, topics_created>>

\* The store becomes unavailable, or available again.
StoreFlip ==
    /\ store_up' = ~store_up
    /\ UNCHANGED <<use_topics, sink_state, server_topics, message_mappings, async_lock,
                   save_tasks, tasks, rate_limiter, chat, alive, sent, blob, calls,
                   started, restarts, topics_created>>

\* The process is restarted: every object is constructed anew
\* (TelegramService.__init__), the sink side and the store keep their state.
Restart ==
    /\ restarts < MaxRestarts
    /\ restarts' = restarts + 1
    /\ sink_state' = "new"
    /\ server_topics' = [g \in Guilds |-> None]
    /\ message_mappings' = [ts \in Timestamps |-> None]
    /\ async_lock' = Free
    /\ save_tasks' = 0
    /\ tasks' = [t \in Tasks |-> IdleTask]
    /\ rate_limiter' = NewLimiter(None, 20)
    /\ calls' = NoCalls
    /\ UNCHANGED <<use_topics, chat, alive, sent, blob, store_up, started,
                   topics_created>>

SinkNext ==
    \/ \E ok \in BOOLEAN : initialize(ok)
    \/ RunSaveTask
    \/ \E t \in Senders, g \in Guilds, ts \in Timestamps : StartSend(t, g, ts)
    \/ \E t \in Senders, ok \in BOOLEAN : WaitIfNeeded(t, ok)
    \/ \E t \in Senders : TopicsOff(t)
    \/ \E t \in Senders : LockAndLookup(t)
    \/ \E t \in Senders, ok \in BOOLEAN : VerifyTopicExists(t, ok)
    \/ \E t \in Senders : DropStaleTopic(t)
    \/ \E t \in Senders, ok \in BOOLEAN : CreateTopic(t, ok)
    \/ \E t \in Senders, ok \in BOOLEAN : SendMessage(t, ok)
    \/ \E id \in 1..MaxTopics : DeleteTopic(id)
    \/ StoreFlip
    \/ Restart

(***************************************************************************)
(* Rate limiter (app/utils/rate_limiter.py)                                *)
(*                                                                         *)
(* One RateLimiter instance under an arbitrary sequence of acquire,        *)
(* record_success and record_error calls.  acquire has no await inside its *)
(* lock block, so it is one step.  The clock counts ticks of               *)
(* 1/TicksPerSecond s.  requests_per_second is kept in tenths.             *)
(***************************************************************************)
VARIABLES
    limiter,        \* the RateLimiter instance
    now,            \* time.time(), in ticks
    last_acquire,   \* key and result of the latest acquire call
    granted,        \* history: the acquire calls that returned True
    acquires,       \* number of acquire calls made
    feedbacks,      \* number of record_success / record_error calls made
    advances        \* number of clock steps taken

limiterVars == <<limiter, now, last_acquire, granted, acquires, feedbacks, advances>>

Keys == {"telegram_send", "token_0"}    \* identifiers passed to acquire
PerSecondCaps == {None, 5, 20}          \* requests_per_second, in tenths
PerMinuteCaps == {None, 2}              \* requests_per_minute
window_seconds == 60                    \* RateLimitBucket's default window

\* A bucket that starts with one request counted.
RateLimitBucketCounted(window) ==
    [requests |-> 1, reset_time |-> 0, window_seconds |-> window]

RateLimitBucket(window) == [requests |-> 0, reset_time |-> 0, window_seconds |-> window]

MainKey(identifier) == <<identifier, "main", 0>>
\* f"{identifier}_1s_{window_1s}"
SecondKey(identifier, window_1s) == <<identifier, "1s", window_1s>>

NoAcquire == [key |-> "none", result |-> FALSE]

LimiterIdle ==
    /\ limiter = NewLimiter(None, None)
    /\ now = 0
    /\ last_acquire = NoAcquire
    /\ granted = <<>>
    /\ acquires = 0
    /\ feedbacks = 0
    /\ advances = 0

\* Feedback states a limiter gets into: as constructed; back at 1.0 after one
\* decrease and ten increases; after 100 successes; after 3 errors; after 101
\* successes and then 3 errors.
FeedbackStates ==
    {[adaptive_multiplier |-> 100, may_exceed |-> FALSE, success_count |-> 0, error_count |-> 0],
     [adaptive_multiplier |-> 100, may_exceed |-> TRUE, success_count |-> 0, error_count |-> 0],
     [adaptive_multiplier |-> 100, may_exceed |-> FALSE, success_count |-> 100, error_count |-> 0],
     [adaptive_multiplier |-> 100, may_exceed |-> FALSE, success_count |-> 0, error_count |-> 3],
     [adaptive_multiplier |-> 101, may_exceed |-> TRUE, success_count |-> 0, error_count |-> 3]}

\* A limiter with any of the configurations, no buckets yet, in one of the
\* feedback states.
LimiterInit ==
    /\ \E per_second \in PerSecondCaps, per_minute \in PerMinuteCaps, f \in FeedbackStates :
          limiter = [NewLimiter(per_second, per_minute) EXCEPT
                       !.adaptive_multiplier = f.adaptive_multiplier,
                       !.may_exceed = f.may_exceed,
                       !.success_count = f.success_count,
                       !.error_count = f.error_count]
    /\ now = 0
    /\ last_acquire = NoAcquire
    /\ granted = <<>>
    /\ acquires = 0
    /\ feedbacks = 0
    /\ advances = 0

\* requests >= cap * adaptive_multiplier, for cap = cap/scale.  With `above`
\* the double product lies just above the decimal product.
AtLimit(requests, cap, scale, l, above) ==
    IF above /\ requests * scale * 100 = cap * l.adaptive_multiplier
    THEN FALSE
    ELSE requests * scale * 100 >= cap * l.adaptive_multiplier


\* acquire(identifier), the whole lock block.
acquire(identifier, above_minute, above_second) ==
    LET main == MainKey(identifier)
        bucket0 == IF main \in DOMAIN limiter.buckets
                   THEN limiter.buckets[main] ELSE RateLimitBucket(window_seconds)
        bucket == IF now >= bucket0.reset_time
                  THEN [bucket0 EXCEPT !.requests = 0,
                          !.reset_time = now + bucket0.window_seconds * TicksPerSecond]
                  ELSE bucket0
        window_1s == now \div TicksPerSecond
        second_bucket_key == SecondKey(identifier, window_1s)
        second_bucket == IF second_bucket_key \in DOMAIN limiter.buckets
                         THEN limiter.buckets[second_bucket_key] ELSE RateLimitBucket(1)
        minute_full == /\ limiter.requests_per_minute # None
                       /\ AtLimit(bucket.requests, limiter.requests_per_minute, 1,
                                  limiter, above_minute)
        second_full == /\ limiter.requests_per_second # None
                       /\ AtLimit(second_bucket.requests, limiter.requests_per_second, 10,
                                  limiter, above_second)
        with_main == (main :> bucket) @@ limiter.buckets
        with_second == IF limiter.requests_per_second # None
                       THEN (second_bucket_key :> second_bucket) @@ with_main
                       ELSE with_main
        counted == [k \in DOMAIN with_second |->
                      IF k = main \/ (k = second_bucket_key
                                      /\ limiter.requests_per_second # None)
                      THEN [with_second[k] EXCEPT !.requests = @ + 1]
                      ELSE with_second[k]]
        result == ~minute_full /\ ~second_full
    IN  /\ acquires < MaxAcquires
        /\ acquires' = acquires + 1
        /\ limiter' = [limiter EXCEPT !.buckets = IF minute_full THEN with_main
                                                  ELSE IF second_full THEN with_second
                                                  ELSE counted]
        /\ last_acquire' = [key |-> identifier, result |-> result]
        /\ granted' = IF result
                      THEN Append(granted,
                             [key |-> identifier, at |-> now])
                      ELSE granted
        /\ UNCHANGED <<now, feedbacks, advances>>

Acquire(identifier, above_minute, above_second) ==
    /\ above_minute => /\ limiter.may_exceed
                       /\ limiter.requests_per_minute # None
                       /\ (limiter.requests_per_minute * limiter.adaptive_multiplier) % 100 = 0
    /\ above_second => /\ limiter.may_exceed
                       /\ limiter.requests_per_second # None
                       /\ (limiter.requests_per_second * limiter.adaptive_multiplier) % 1000 = 0
    /\ acquire(identifier, above_minute, above_second)

RecordSuccess ==
    /\ feedbacks < MaxFeedbacks
    /\ feedbacks' = feedbacks + 1
    /\ limiter' = record_success(limiter)
    /\ UNCHANGED <<now, last_acquire, granted, acquires, advances>>

RecordError ==
    /\ feedbacks < MaxFeedbacks
    /\ feedbacks' = feedbacks + 1
    /\ limiter' = record_error(limiter)
    /\ UNCHANGED <<now, last_acquire, granted, acquires, advances>>

\* The clock moves on by one tick, or to one tick before a minute has passed.
Advance(ticks) ==
    /\ advances < MaxAdvances
    /\ advances' = advances + 1
    /\ now' = now + ticks
    /\ UNCHANGED <<limiter, last_acquire, granted, acquires, feedbacks>>

LimiterNext ==
    \/ \E k \in Keys, a, b \in BOOLEAN : Acquire(k, a, b)
    \/ RecordSuccess
    \/ RecordError
    \/ \E ticks \in {1, window_seconds * TicksPerSecond - 1} : Advance(ticks)

(***************************************************************************)
(* Ingress queue and gateway dispatch                                      *)
(* (app/services/message_processor.py, app/services/discord_service.py)    *)
(*                                                                         *)
(* The orchestrator is running and the sink client is initialized.         *)
(* Producers call queue_message; the drain loop takes one message at a     *)
(* time and sends it with send_message (the sink client's steps above,     *)
(* taken by DrainTask); gateway streams deliver MESSAGE_CREATE dispatches. *)
(***************************************************************************)
VARIABLES
    message_queue,  \* asyncio.Queue(maxsize): the messages it holds, oldest first
    producers,      \* per producer: position in queue_message and its message
    stats,          \* SystemStats counters
    gateway,        \* history of MESSAGE_CREATE dispatches and what became of them
    arrivals,       \* history: the messages put() has accepted, in order
    taken,          \* history: the messages get() has handed to the drain loop, in order
    outcomes        \* history: what send_message returned for each of them, in order

ingressVars == <<message_queue, producers, stats, gateway, arrivals, taken, outcomes>>

maxsize == 1000                       \* asyncio.Queue(maxsize=1000)
Producers == {"producer1", "producer2"}
Messages == {[g |-> "Alpha", ts |-> ts] : ts \in Timestamps}  \* what producers offer
NoError == "none"                     \* last_error: Optional[str] = None
NoErrorTime == "none"                 \* last_error_time: Optional[datetime] = None

IdleProducer == [pc |-> "idle", message |-> [g |-> "Alpha", ts |-> 1], calls |-> 0]
SystemStats == [messages_processed_today |-> 0, messages_processed_total |-> 0,
                errors_last_hour |-> 0, last_error |-> NoError,
                last_error_time |-> NoErrorTime]
\* Dispatches received with and without content, those logged, and those
\* passed on to queue_message.
NoDispatches == [received |-> 0, empty |-> 0, logged |-> 0, queued |-> 0]

IngressIdle ==
    /\ message_queue = <<>>
    /\ producers = [p \in Producers |-> IdleProducer]
    /\ stats = SystemStats
    /\ gateway = NoDispatches
    /\ arrivals = <<>>
    /\ taken = <<>>
    /\ outcomes = <<>>

\* What a slow drain has left in the queue: n copies of one message.
Backlog(n) == [i \in 1..n |-> [g |-> "Alpha", ts |-> 1]]

\* The queue is empty, or a slow drain has let it fill up to one below maxsize.
IngressInit ==
    /\ message_queue \in {Backlog(0), Backlog(maxsize - 1)}
    /\ producers = [p \in Producers |-> IdleProducer]
    /\ stats = SystemStats
    /\ gateway = NoDispatches
    /\ arrivals = <<>>
    /\ taken = <<>>
    /\ outcomes = <<>>

\* The sink client after a successful initialize() with no persisted document.
SinkReady ==
    /\ use_topics \in BOOLEAN
    /\ chat = "forum"
    /\ sink_state = "ready"
    /\ SinkConstructed

full == Len(message_queue) >= maxsize

\* queue_message: await self.message_queue.put(message).  put() appends when
\* there is room and otherwise suspends the caller until a slot is free; it
\* never raises QueueFull.
QueueMessage(p, message) ==
    /\ producers[p].pc = "idle"
    /\ producers[p].calls + producers[CHOOSE q \in Producers : q # p].calls < MaxOffers
    /\ IF full
       THEN /\ producers' = [producers EXCEPT ![p].pc = "put", ![p].message = message,
                                              ![p].calls = @ + 1]
            /\ UNCHANGED <<message_queue, arrivals>>
       ELSE /\ message_queue' = Append(message_queue, message)
            /\ arrivals' = Append(arrivals, message)
            /\ producers' = [producers EXCEPT ![p].message = message, ![p].calls = @ + 1]
    /\ UNCHANGED <<stats, gateway, taken, outcomes, sinkVars>>

\* A suspended put() resumes once the queue has room.
PutResumes(p) ==
    /\ producers[p].pc = "put"
    /\ ~full
    /\ message_queue' = Append(message_queue, producers[p].message)
    /\ arrivals' = Append(arrivals, producers[p].message)
    /\ producers' = [producers EXCEPT ![p].pc = "idle"]
    /\ UNCHANGED <<stats, gateway, taken, outcomes, sinkVars>>

\* A get() that hands out the newest message.
GetNewest(queue) == queue[Len(queue)]

\* asyncio.Queue.get(): the oldest message.
QueueGet(queue) == Head(queue)

\* _message_processor_loop: message_queue.get(), then the call of
\* send_message from _process_single_message.
DrainGet ==
    /\ tasks[DrainTask].pc = "idle"
    /\ message_queue # <<>>
    /\ EnterSend(DrainTask, QueueGet(message_queue).g, QueueGet(message_queue).ts)
    /\ message_queue' = Tail(message_queue)
    /\ taken' = Append(taken, QueueGet(message_queue))
    /\ UNCHANGED <<use_topics, sink_state, server_topics, message_mappings, async_lock,
                   save_tasks, rate_limiter, chat, alive, sent, blob, store_up, calls,
                   restarts, topics_created>>
    /\ UNCHANGED <<producers, stats, gateway, arrivals, outcomes>>

\* A success branch that counts the message for today only.
CountSuccessTodayOnly(s) == [s EXCEPT !.messages_processed_today = @ + 1]

\* The success branch of _process_single_message.
CountSuccess(s) ==
    [s EXCEPT !.messages_processed_today = @ + 1, !.messages_processed_total = @ + 1]

\* An error branch that leaves the statistics as they are.
CountErrorLost(s, error) == s

\* The error branches of _process_single_message.
CountError(s, error) ==
    [s EXCEPT !.errors_last_hour = @ + 1, !.last_error = error, !.last_error_time = "now"]

\* _process_single_message after send_message has returned, and task_done().
DrainRecord ==
    /\ tasks[DrainTask].pc = "done"
    /\ stats' = IF tasks[DrainTask].result
                THEN CountSuccess(stats)
                ELSE CountError(stats, "Failed to send message to Telegram")
    /\ outcomes' = Append(outcomes, tasks[DrainTask].result)
    /\ tasks' = [tasks EXCEPT ![DrainTask].pc = "idle"]
    /\ UNCHANGED <<use_topics, sink_state, server_topics, message_mappings, async_lock,
                   save_tasks, rate_limiter, chat, alive, sent, blob, store_up, calls,
                   started, restarts, topics_created>>
    /\ UNCHANGED <<message_queue, producers, gateway, arrivals, taken>>

\* send_message as run by the drain loop.
DrainSend ==
    /\ \/ \E ok \in BOOLEAN : WaitIfNeeded(DrainTask, ok)
       \/ TopicsOff(DrainTask)
       \/ LockAndLookup(DrainTask)
       \/ \E ok \in BOOLEAN : VerifyTopicExists(DrainTask, ok)
       \/ DropStaleTopic(DrainTask)
       \/ \E ok \in BOOLEAN : CreateTopic(DrainTask, ok)
       \/ \E ok \in BOOLEAN : SendMessage(DrainTask, ok)
       \/ RunSaveTask
    /\ UNCHANGED ingressVars

\* _handle_websocket_messages on an op=0 MESSAGE_CREATE frame:
\* _handle_new_message logs a message with non-empty content and returns.
HandleNewMessage(has_content) ==
    /\ gateway.received + gateway.empty < MaxDispatches
    /\ gateway' = IF has_content
                  THEN [gateway EXCEPT !.received = @ + 1, !.logged = @ + 1]
                  ELSE [gateway EXCEPT !.empty = @ + 1]
    /\ UNCHANGED <<message_queue, producers, stats, arrivals, taken, outcomes, sinkVars>>

IngressNext ==
    \/ \E p \in Producers, m \in Messages : QueueMessage(p, m)
    \/ \E p \in Producers : PutResumes(p)
    \/ DrainGet
    \/ DrainSend
    \/ DrainRecord
    \/ \E has_content \in BOOLEAN : HandleNewMessage(has_content)

(***************************************************************************)
(* Batch path (MessageProcessor.add_to_batch / _process_batch /            *)
(* _batch_processor_loop, TelegramService.send_messages_batch)             *)
(*                                                                         *)
(* A batch send is run by the 5-second batch loop, by a task spawned from  *)
(* add_to_batch, or by a direct caller such as the initial backfill.  Each *)
(* individual send_message call of a batch is one step whose result is an  *)
(* input; the sleep after it is where other batch sends take their steps.  *)
(***************************************************************************)
VARIABLES
    batch_queue,    \* MessageProcessor.batch_queue
    flushes,        \* per caller of send_messages_batch: its position and locals
    batches,        \* history: the send_messages_batch calls made, with input and result
    attempts,       \* history: the individual send_message calls made by batch sends
    pushed          \* number of messages given to add_to_batch so far

batchVars == <<batch_queue, flushes, batches, attempts, pushed>>

BatchLoop == "batch_loop"                           \* _batch_processor_loop
ProcessBatchTasks == {"process_batch1", "process_batch2"}   \* tasks made by add_to_batch
DirectCaller == "initial_sync"                      \* _perform_initial_sync
Flushers == {BatchLoop, DirectCaller} \cup ProcessBatchTasks
Running == -1                                       \* a batch send that has not returned

IdleFlush == [pc |-> "idle", call |-> 0, order |-> <<>>, next |-> 1, sent_count |-> 0]

BatchIdle ==
    /\ batch_queue = <<>>
    /\ flushes = [f \in Flushers |-> IdleFlush]
    /\ batches = <<>>
    /\ attempts = <<>>
    /\ pushed = 0

\* A sort that leaves the list as it is.
SortSkipped(messages) == messages

InsertByTimestamp(sorted, m) ==
    LET before == SelectSeq(sorted, LAMBDA x : x.ts <= m.ts)
        after == SelectSeq(sorted, LAMBDA x : x.ts > m.ts)
    IN  before \o <<m>> \o after

RECURSIVE SortByTimestamp(_)
\* server_messages.sort(key=lambda x: x.timestamp): ascending and stable.
SortByTimestamp(messages) ==
    IF messages = <<>> THEN <<>>
    ELSE InsertByTimestamp(SortByTimestamp(SubSeq(messages, 1, Len(messages) - 1)),
                           messages[Len(messages)])

RECURSIVE ServerNames(_)
\* The keys of server_groups, in the order of their first message.
ServerNames(messages) ==
    IF messages = <<>> THEN <<>>
    ELSE LET names == ServerNames(SubSeq(messages, 1, Len(messages) - 1))
             g == messages[Len(messages)].g
         IN  IF \E i \in DOMAIN names : names[i] = g THEN names ELSE Append(names, g)

RECURSIVE SendOrder(_, _)
\* The messages of each server in turn, each group sorted.
SendOrder(names, messages) ==
    IF names = <<>> THEN <<>>
    ELSE SortByTimestamp(SelectSeq(messages, LAMBDA m : m.g = names[1]))
         \o SendOrder(Tail(names), messages)

\* A batch send that is handed the list without its first message.
BeginBatchSkipsFirst(f, messages) ==
    /\ Len(batches) < MaxBatches
    /\ batches' = Append(batches, [caller |-> f, input |-> Tail(messages),
                                   returned |-> Running])
    /\ flushes' = [flushes EXCEPT ![f] =
                     [pc |-> "sending", call |-> Len(batches) + 1,
                      order |-> SendOrder(ServerNames(Tail(messages)), Tail(messages)),
                      next |-> 1, sent_count |-> 0]]

\* send_messages_batch up to its first send.
BeginBatch(f, messages) ==
    /\ Len(batches) < MaxBatches
    /\ batches' = Append(batches, [caller |-> f, input |-> messages, returned |-> Running])
    /\ flushes' = [flushes EXCEPT ![f] =
                     [pc |-> "sending", call |-> Len(batches) + 1,
                      order |-> SendOrder(ServerNames(messages), messages),
                      next |-> 1, sent_count |-> 0]]

\* add_to_batch: extend the queue; at message_batch_size make a task.
AddToBatch(count) ==
    /\ pushed + count <= MaxPushes
    /\ pushed' = pushed + count
    /\ LET new == [i \in 1..count |-> [g |-> "Alpha", ts |-> pushed + i, n |-> pushed + i]]
           queue == batch_queue \o new
       IN  /\ batch_queue' = queue
           /\ IF Len(queue) >= message_batch_size
              THEN \E f \in ProcessBatchTasks :
                      /\ flushes[f].pc = "idle"
                      /\ flushes' = [flushes EXCEPT ![f].pc = "spawned"]
              ELSE UNCHANGED flushes
    /\ UNCHANGED <<batches, attempts, stats>>

\* _process_batch up to its first send.
ProcessBatch(f) ==
    /\ f \in ProcessBatchTasks
    /\ flushes[f].pc = "spawned"
    /\ IF batch_queue = <<>>
       THEN /\ flushes' = [flushes EXCEPT ![f].pc = "idle"]
            /\ UNCHANGED <<batch_queue, batches>>
       ELSE /\ BeginBatch(f, batch_queue)
            /\ batch_queue' = <<>>
    /\ UNCHANGED <<attempts, pushed, stats>>

\* _batch_processor_loop after its sleep, with a queue that is not empty.
BatchLoopFlush ==
    /\ flushes[BatchLoop].pc = "idle"
    /\ batch_queue # <<>>
    /\ BeginBatch(BatchLoop, batch_queue)
    /\ batch_queue' = <<>>
    /\ UNCHANGED <<attempts, pushed, stats>>

\* send_messages_batch called with a list of the caller's own.
DirectBatch(messages) ==
    /\ flushes[DirectCaller].pc = "idle"
    /\ \A i \in DOMAIN batches : batches[i].caller # DirectCaller
    /\ BeginBatch(DirectCaller, messages)
    /\ UNCHANGED <<batch_queue, attempts, pushed, stats>>

\* One turn of the inner loop: await send_message(message), count, sleep.
BatchSend(f, ok) ==
    /\ flushes[f].pc = "sending"
    /\ flushes[f].next <= Len(flushes[f].order)
    /\ attempts' = Append(attempts, [call |-> flushes[f].call,
                                     message |-> flushes[f].order[flushes[f].next],
                                     ok |-> ok])
    /\ flushes' = [flushes EXCEPT ![f].next = @ + 1,
                                  ![f].sent_count = IF ok THEN @ + 1 ELSE @]
    /\ UNCHANGED <<batch_queue, batches, pushed, stats>>

\* return sent_count, and what the caller does with it.
BatchReturn(f) ==
    /\ flushes[f].pc = "sending"
    /\ flushes[f].next > Len(flushes[f].order)
    /\ batches' = [batches EXCEPT ![flushes[f].call].returned = flushes[f].sent_count]
    /\ flushes' = [flushes EXCEPT ![f] = IdleFlush]
    /\ LET sent_count == flushes[f].sent_count
           failed_count == Len(batches[flushes[f].call].input) - sent_count
       IN  stats' = IF f = DirectCaller
                    THEN [stats EXCEPT !.messages_processed_total = @ + sent_count]
                    ELSE [stats EXCEPT !.messages_processed_today = @ + sent_count,
                                       !.messages_processed_total = @ + sent_count,
                                       !.errors_last_hour = @ + failed_count]
    /\ UNCHANGED <<batch_queue, attempts, pushed>>

\* The lists a direct caller passes: up to MaxBatchLen messages of any guild
\* and timestamp, numbered by position.
BatchInputs ==
    UNION {{[i \in 1..len |-> [g |-> gs[i], ts |-> tss[i], n |-> i]] :
               gs \in [1..len -> Guilds], tss \in [1..len -> Timestamps]} :
           len \in 0..MaxBatchLen}

\* A caller that passes send_messages_batch a list of its own.
BatchNext ==
    \/ \E messages \in BatchInputs : DirectBatch(messages)
    \/ \E f \in Flushers, ok \in BOOLEAN : BatchSend(f, ok)
    \/ \E f \in Flushers : BatchReturn(f)

\* The batch queue with its two flushers.
FlushNext ==
    \/ \E count \in 1..2 : AddToBatch(count)
    \/ \E f \in ProcessBatchTasks : ProcessBatch(f)
    \/ BatchLoopFlush
    \/ \E f \in Flushers, ok \in BOOLEAN : BatchSend(f, ok)
    \/ \E f \in Flushers : BatchReturn(f)

(***************************************************************************)
(* Source client: token validation and session rotation                    *)
(* (app/services/discord_service.py)                                       *)
(*                                                                         *)
(* A token is described by what the source answers to the requests made    *)
(* with it.  initialize() validates the configured tokens one after the    *)
(* other; afterwards get_recent_messages picks sessions round-robin.       *)
(***************************************************************************)
VARIABLES
    discord_tokens,         \* settings.discord_tokens: what the source answers for each
    sessions,               \* DiscordService.sessions, as indices into discord_tokens
    closed,                 \* indices of the tokens whose session was closed
    current_token_index,    \* DiscordService.current_token_index (0-based)
    servers,                \* DiscordService.servers, as (server, channel, http_accessible)
    validated,              \* number of tokens initialize() has been through
    initialized,            \* "pending", or what initialize() returned: "ok" / "failed"
    pulls                   \* history: the get_recent_messages calls and the session each used

sourceVars == <<discord_tokens, sessions, closed, current_token_index, servers,
                validated, initialized, pulls>>

MESSAGE_CONTENT == 262144       \* 1 << 18
Valid == [me_status |-> 200, flags |-> MESSAGE_CONTENT, guilds_status |-> 200,
          guilds |-> 1, raises |-> FALSE]
TokenProfiles ==
    { Valid,
      [Valid EXCEPT !.flags = MESSAGE_CONTENT + 64],
      [Valid EXCEPT !.me_status = 401],
      [Valid EXCEPT !.flags = 131072],
      [Valid EXCEPT !.guilds_status = 403],
      [Valid EXCEPT !.guilds = 0],
      [Valid EXCEPT !.raises = TRUE] }

\* Values of servers (Dict[str, ServerInfo]): nothing, or one server with a
\* channel that is readable over HTTP and one that is not.
ServerMaps ==
    { {},
      { [server |-> "Alpha", channel |-> "c1", http_accessible |-> TRUE],
        [server |-> "Alpha", channel |-> "c2", http_accessible |-> FALSE] } }
ServerNamesAsked == {"Alpha", "Ghost"}
ChannelsAsked == {"c1", "c2", "c9"}

SourceConstructed ==
    /\ sessions = <<>>
    /\ closed = {}
    /\ current_token_index = 0
    /\ servers = {}
    /\ validated = 0
    /\ initialized = "pending"
    /\ pulls = <<>>

SourceIdle == discord_tokens = <<Valid>> /\ SourceConstructed

SourceInit ==
    /\ discord_tokens \in UNION {[1..n -> TokenProfiles] : n \in 1..MaxTokens}
    /\ SourceConstructed

\* A flag test that takes any set bit for the intent.
AnyFlag(flags) == flags # 0

\* flags & (1 << 18)
HasMessageContent(flags) == (flags \div MESSAGE_CONTENT) % 2 = 1

\* _validate_token_permissions: the guild list, then users/@me and its flags.
validate_token_permissions(token) ==
    /\ token.guilds_status = 200
    /\ token.me_status = 200
    /\ HasMessageContent(token.flags)

\* _validate_token: users/@me, the permissions, the guild list; any
\* exception makes it return False.
validate_token(token) ==
    /\ ~token.raises
    /\ token.me_status = 200
    /\ validate_token_permissions(token)
    /\ token.guilds_status = 200
    /\ token.guilds # 0

\* One turn of the loop of initialize(): validate the next token, keep its
\* session or close it.
ValidateToken ==
    /\ initialized = "pending"
    /\ validated < Len(discord_tokens)
    /\ validated' = validated + 1
    /\ IF validate_token(discord_tokens[validated + 1])
       THEN sessions' = Append(sessions, validated + 1) /\ UNCHANGED closed
       ELSE closed' = closed \cup {validated + 1} /\ UNCHANGED sessions
    /\ UNCHANGED <<discord_tokens, current_token_index, servers, initialized, pulls>>

\* initialize() after the loop: fail without sessions, else discover.
FinishInitialize(discovered) ==
    /\ initialized = "pending"
    /\ validated = Len(discord_tokens)
    /\ IF sessions = <<>>
       THEN initialized' = "failed" /\ UNCHANGED servers
       ELSE initialized' = "ok" /\ servers' = discovered
    /\ UNCHANGED <<discord_tokens, sessions, closed, current_token_index, validated, pulls>>

\* An index that stays where it is.
SameTokenIndex == current_token_index

\* An index that is advanced without wrapping around.
UnwrappedTokenIndex == current_token_index + 1

\* _get_next_session: the session at the index; the index after it.
get_next_session == sessions[current_token_index + 1]
next_token_index == (current_token_index + 1) % Len(sessions)

\* get_recent_messages: the three early returns, then the session choice
\* and the request made with it.
GetRecentMessages(server_name, channel_id) ==
    /\ initialized = "ok"
    /\ Len(pulls) < MaxPulls
    /\ IF \E c \in servers : c.server = server_name /\ c.channel = channel_id
                             /\ c.http_accessible
       THEN /\ pulls' = Append(pulls, get_next_session)
            /\ current_token_index' = next_token_index
       ELSE /\ pulls' = Append(pulls, None)
            /\ UNCHANGED current_token_index
    /\ UNCHANGED <<discord_tokens, sessions, closed, servers, validated, initialized>>

SourceNext ==
    \/ ValidateToken
    \/ \E discovered \in ServerMaps : FinishInitialize(discovered)
    \/ \E server_name \in ServerNamesAsked, channel_id \in ChannelsAsked :
          GetRecentMessages(server_name, channel_id)

(***************************************************************************)
(* Gateway connection loop (DiscordService._websocket_connection_loop,     *)
(* _handle_websocket_messages)                                             *)
(*                                                                         *)
(* One loop per valid session.  Each await of the loop is a step; what the *)
(* gateway does (accepts or refuses the connection, sends HELLO, a         *)
(* malformed frame, an ERROR frame, closes the stream, stays up for an     *)
(* hour) is an input of the step.                                          *)
(***************************************************************************)
VARIABLES
    running,                \* DiscordService.running
    websocket_connections,  \* DiscordService.websocket_connections, by token
    ws_loops,               \* per token: position of its connection loop, its ws and heartbeat
    gateway_log             \* history, per token: what its loop has done, in order

gatewayVars == <<running, websocket_connections, ws_loops, gateway_log>>

GatewayTokens == {0, 1}     \* token_index of the valid sessions
NewLoop == [pc |-> "unstarted", ws |-> "none", heartbeat |-> "none", connects |-> 0]

GatewayIdle ==
    /\ running = FALSE
    /\ websocket_connections = {}
    /\ ws_loops = [t \in GatewayTokens |-> NewLoop]
    /\ gateway_log = [t \in GatewayTokens |-> <<>>]

Logged(t, events) == gateway_log' = [gateway_log EXCEPT ![t] = @ \o events]

\* start_websocket_monitoring: running = True, one task per session.
StartWebsocketMonitoring ==
    /\ \A t \in GatewayTokens : ws_loops[t].pc = "unstarted"
    /\ running' = TRUE
    /\ ws_loops' = [t \in GatewayTokens |-> [NewLoop EXCEPT !.pc = "top"]]
    /\ UNCHANGED <<websocket_connections, gateway_log>>

\* while self.running, found false: the loop ends.
LoopExits(t) ==
    /\ ws_loops[t].pc = "top"
    /\ ~running
    /\ ws_loops' = [ws_loops EXCEPT ![t].pc = "exited"]
    /\ UNCHANGED <<running, websocket_connections, gateway_log>>

\* The gateway URL request and ws_connect; on success the connection is
\* appended to the list, on failure the exception handler is entered.
Connect(t, ok) ==
    /\ ws_loops[t].pc = "top"
    /\ running
    /\ ws_loops[t].connects < MaxConnects
    /\ Logged(t, <<"connect">>)
    /\ IF ok
       THEN /\ ws_loops' = [ws_loops EXCEPT ![t] =
                              [pc |-> "handling", ws |-> "open", heartbeat |-> "none",
                               connects |-> @.connects + 1]]
            /\ websocket_connections' = websocket_connections \cup {t}
       ELSE /\ ws_loops' = [ws_loops EXCEPT ![t] =
                              [pc |-> "except", ws |-> "none", heartbeat |-> "none",
                               connects |-> @.connects + 1]]
            /\ UNCHANGED websocket_connections
    /\ UNCHANGED running

\* op 10 HELLO: the heartbeat task is created.
Hello(t) ==
    /\ ws_loops[t].pc = "handling"
    /\ ws_loops[t].ws = "open"
    /\ ws_loops[t].heartbeat = "none"
    /\ ws_loops' = [ws_loops EXCEPT ![t].heartbeat = "running"]
    /\ UNCHANGED <<running, websocket_connections, gateway_log>>

\* The finally block of _handle_websocket_messages.
CancelHeartbeat(t) ==
    IF ws_loops[t].heartbeat = "running" THEN <<"cancel_heartbeat">> ELSE <<>>

\* The session ends.  "raised": a malformed frame or a transport error
\* raises out of the handler; "returned": an ERROR frame or the end of the
\* stream lets the handler return; "timeout": wait_for gives up after 3600 s
\* and the loop continues.
SessionEnds(t, how) ==
    /\ ws_loops[t].pc = "handling"
    /\ how = "timeout" => ws_loops[t].ws = "open"
    /\ Logged(t, CancelHeartbeat(t))
    /\ ws_loops' = [ws_loops EXCEPT
                      ![t].heartbeat = IF @ = "running" THEN "cancelled" ELSE @,
                      ![t].pc = IF how = "raised" THEN "except" ELSE "finally"]
    /\ UNCHANGED <<running, websocket_connections>>

\* except Exception: sleep websocket_reconnect_delay if still running.
ExceptionHandler(t) ==
    /\ ws_loops[t].pc = "except"
    /\ Logged(t, IF running THEN <<"wait">> ELSE <<>>)
    /\ ws_loops' = [ws_loops EXCEPT ![t].pc = "finally"]
    /\ UNCHANGED <<running, websocket_connections>>

\* finally: close the connection if it is open, remove it from the list.
Finally(t) ==
    /\ ws_loops[t].pc = "finally"
    /\ Logged(t, (IF ws_loops[t].ws = "open" THEN <<"close">> ELSE <<>>)
                 \o (IF t \in websocket_connections THEN <<"remove">> ELSE <<>>))
    /\ ws_loops' = [ws_loops EXCEPT ![t].pc = "top",
                                    ![t].ws = IF @ = "open" THEN "closed" ELSE @]
    /\ websocket_connections' = websocket_connections \ {t}
    /\ UNCHANGED running

\* DiscordService.cleanup: running = False, every listed connection closed.
SourceCleanup ==
    /\ running
    /\ running' = FALSE
    /\ ws_loops' = [t \in GatewayTokens |->
                      IF t \in websocket_connections /\ ws_loops[t].ws = "open"
                      THEN [ws_loops[t] EXCEPT !.ws = "closed"]
                      ELSE ws_loops[t]]
    /\ UNCHANGED <<websocket_connections, gateway_log>>

GatewayNext ==
    \/ StartWebsocketMonitoring
    \/ \E t \in GatewayTokens : LoopExits(t)
    \/ \E t \in GatewayTokens, ok \in BOOLEAN : Connect(t, ok)
    \/ \E t \in GatewayTokens : Hello(t)
    \/ \E t \in GatewayTokens, how \in {"raised", "returned", "timeout"} : SessionEnds(t, how)
    \/ \E t \in GatewayTokens : ExceptionHandler(t)
    \/ \E t \in GatewayTokens : Finally(t)
    \/ SourceCleanup

(***************************************************************************)
(* Orchestrator lifecycle (app/main.py lifespan, MessageProcessor          *)
(* initialize / start / stop, and the cleanup of the two sub-services)     *)
(*                                                                         *)
(* Each await of initialize() and stop() is a step; the result of a        *)
(* sub-service's initialize() is an input.  A call of a method that the    *)
(* object does not have raises AttributeError at the call.                 *)
(***************************************************************************)
VARIABLES
    processor_initialized,  \* MessageProcessor.initialize(): "pending", "source_ok", "ok", "failed"
    processor_running,      \* MessageProcessor.running
    processor_tasks,        \* MessageProcessor.tasks: the state of each background task
    lifespan,               \* position of lifespan() in main.py
    starting,               \* the task running MessageProcessor.start()
    stops,                  \* per caller of MessageProcessor.stop(): its position
    lifecycle_log           \* history: what start() and stop() have done, in order

lifecycleVars == <<processor_initialized, processor_running, processor_tasks, lifespan,
                   starting, stops, lifecycle_log>>

BackgroundTasks == {"message_processor_loop", "batch_processor_loop", "periodic_sync_loop",
                    "cleanup_loop", "stats_update_loop", "health_check_loop",
                    "websocket_monitoring"}
Stoppers == {"signal_handler", "lifespan_finally"}
TelegramServiceMethods == {"initialize", "send_message", "send_messages_batch",
                           "start_bot_async", "cleanup"}

LifecycleIdle ==
    /\ processor_initialized = "pending"
    /\ processor_running = FALSE
    /\ processor_tasks = [t \in BackgroundTasks |-> "unborn"]
    /\ lifespan = "initialize"
    /\ starting = "none"
    /\ stops = [s \in Stoppers |-> "idle"]
    /\ lifecycle_log = <<>>

\* MessageProcessor.initialize: discord_service.initialize().
InitializeSource(ok) ==
    /\ lifespan = "initialize"
    /\ processor_initialized = "pending"
    /\ processor_initialized' = IF ok THEN "source_ok" ELSE "failed"
    /\ UNCHANGED <<processor_running, processor_tasks, lifespan, starting, stops,
                   lifecycle_log>>

\* MessageProcessor.initialize: telegram_service.initialize(), reached only
\* when the source client is initialized.
InitializeSink(ok) ==
    /\ lifespan = "initialize"
    /\ processor_initialized = "source_ok"
    /\ processor_initialized' = IF ok THEN "ok" ELSE "failed"
    /\ UNCHANGED <<processor_running, processor_tasks, lifespan, starting, stops,
                   lifecycle_log>>

\* A lifespan that starts the orchestrator whatever initialize() returned.
StartsAnyway == processor_initialized \in {"ok", "failed"}

\* if await message_processor.initialize()
InitializeSucceeded == processor_initialized = "ok"

\* lifespan after initialize(): schedule start() and serve, or raise
\* RuntimeError, which takes it to its finally block.
LifespanStarts ==
    /\ lifespan = "initialize"
    /\ processor_initialized \in {"ok", "failed"}
    /\ IF InitializeSucceeded
       THEN lifespan' = "serving" /\ starting' = "scheduled"
       ELSE lifespan' = "finally" /\ UNCHANGED starting
    /\ UNCHANGED <<processor_initialized, processor_running, processor_tasks, stops,
                   lifecycle_log>>

\* MessageProcessor.start up to its first await: running = True, the seven
\* tasks created, then the thread for telegram_service.start_bot.
Start ==
    /\ starting = "scheduled"
    /\ IF processor_running
       THEN starting' = "returned"
            /\ UNCHANGED <<processor_running, processor_tasks, lifecycle_log>>
       ELSE /\ processor_running' = TRUE
            /\ processor_tasks' = [t \in BackgroundTasks |-> "running"]
            /\ IF "start_bot" \in TelegramServiceMethods
               THEN /\ starting' = "initial_sync"
                    /\ lifecycle_log' = lifecycle_log \o <<"tasks", "poller", "initial_sync">>
               ELSE /\ starting' = "raised"
                    /\ lifecycle_log' = lifecycle_log \o <<"tasks">>
    /\ UNCHANGED <<processor_initialized, lifespan, stops>>

\* The application shuts down: lifespan resumes after its yield.
Shutdown ==
    /\ lifespan = "serving"
    /\ lifespan' = "finally"
    /\ UNCHANGED <<processor_initialized, processor_running, processor_tasks, starting,
                   stops, lifecycle_log>>

\* A stop that cancels the tasks without clearing the running flag.
StopLeavesRunning(s) ==
    /\ stops[s] = "idle"
    /\ IF s = "lifespan_finally" THEN lifespan = "finally" ELSE lifespan = "serving"
    /\ IF ~processor_running
       THEN /\ stops' = [stops EXCEPT ![s] = "returned_early"]
            /\ UNCHANGED <<processor_running, processor_tasks, lifecycle_log>>
       ELSE /\ UNCHANGED processor_running
            /\ processor_tasks' = [t \in BackgroundTasks |->
                                     IF processor_tasks[t] = "running" THEN "cancelled"
                                     ELSE processor_tasks[t]]
            /\ lifecycle_log' = Append(lifecycle_log, "cancel")
            /\ stops' = [stops EXCEPT ![s] = "gather"]
    /\ UNCHANGED <<processor_initialized, lifespan, starting>>

\* MessageProcessor.stop up to its first await: return if not running, else
\* running = False and every task cancelled.
Stop(s) ==
    /\ stops[s] = "idle"
    /\ IF s = "lifespan_finally" THEN lifespan = "finally" ELSE lifespan = "serving"
    /\ IF ~processor_running
       THEN /\ stops' = [stops EXCEPT ![s] = "returned_early"]
            /\ UNCHANGED <<processor_running, processor_tasks, lifecycle_log>>
       ELSE /\ processor_running' = FALSE
            /\ processor_tasks' = [t \in BackgroundTasks |->
                                     IF processor_tasks[t] = "running" THEN "cancelled"
                                     ELSE processor_tasks[t]]
            /\ lifecycle_log' = Append(lifecycle_log, "cancel")
            /\ stops' = [stops EXCEPT ![s] = "gather"]
    /\ UNCHANGED <<processor_initialized, lifespan, starting>>

\* A cancelled background task ends.
TaskEnds(t) ==
    /\ processor_tasks[t] = "cancelled"
    /\ processor_tasks' = [processor_tasks EXCEPT ![t] = "ended"]
    /\ UNCHANGED <<processor_initialized, processor_running, lifespan, starting, stops,
                   lifecycle_log>>

\* await asyncio.gather(*self.tasks, return_exceptions=True) completes.
Gathered(s) ==
    /\ stops[s] = "gather"
    /\ \A t \in BackgroundTasks : processor_tasks[t] = "ended"
    /\ stops' = [stops EXCEPT ![s] = "source_cleanup"]
    /\ lifecycle_log' = Append(lifecycle_log, "gathered")
    /\ UNCHANGED <<processor_initialized, processor_running, processor_tasks, lifespan,
                   starting>>

\* await self.discord_service.cleanup()
StopSourceCleanup(s) ==
    /\ stops[s] = "source_cleanup"
    /\ stops' = [stops EXCEPT ![s] = "sink_cleanup"]
    /\ lifecycle_log' = Append(lifecycle_log, "source_cleanup")
    /\ UNCHANGED <<processor_initialized, processor_running, processor_tasks, lifespan,
                   starting>>

\* await self.telegram_service.cleanup(): self.stop_bot(), then
\* _save_persistent_data().
StopSinkCleanup(s) ==
    /\ stops[s] = "sink_cleanup"
    /\ IF "stop_bot" \in TelegramServiceMethods
       THEN /\ stops' = [stops EXCEPT ![s] = "returned"]
            /\ lifecycle_log' = lifecycle_log \o <<"stop_poller", "final_save">>
       ELSE /\ stops' = [stops EXCEPT ![s] = "raised"]
            /\ UNCHANGED lifecycle_log
    /\ UNCHANGED <<processor_initialized, processor_running, processor_tasks, lifespan,
                   starting>>

LifecycleNext ==
    \/ \E ok \in BOOLEAN : InitializeSource(ok)
    \/ \E ok \in BOOLEAN : InitializeSink(ok)
    \/ LifespanStarts
    \/ Start
    \/ Shutdown
    \/ \E s \in Stoppers : Stop(s)
    \/ \E t \in BackgroundTasks : TaskEnds(t)
    \/ \E s \in Stoppers : Gathered(s)
    \/ \E s \in Stoppers : StopSourceCleanup(s)
    \/ \E s \in Stoppers : StopSinkCleanup(s)

(***************************************************************************)
(* Reconciliation of the topic map (TelegramService._clean_invalid_topics) *)
(*                                                                         *)
(* The sink client is initialized and no send is running.  Every probe is  *)
(* a step, so topics may be deleted on the sink side and the store may     *)
(* come and go between two probes.                                         *)
(***************************************************************************)
VARIABLES
    clean       \* the running _clean_invalid_topics call: position, locals, and what it did

reconcileVars == <<clean>>

NotReturned == -1
IdleClean == [pc |-> "idle", items |-> <<>>, invalid_topics |-> <<>>,
              before |-> [g \in Guilds |-> None], probes |-> <<>>, saves |-> 0,
              stored |-> FALSE, returned |-> NotReturned]

ReconcileIdle == clean = IdleClean

\* The topic maps a running sink client can hold: distinct topics per guild.
TopicMaps ==
    {topics \in [Guilds -> {None} \cup (1..MaxTopics)] :
        \A g, h \in Guilds : (g # h /\ topics[g] # None) => topics[g] # topics[h]}

\* An initialized sink client some time into its run: topics cached, some of
\* them since deleted on the sink side, the blob written or not.
ReconcileInit ==
    /\ use_topics = TRUE
    /\ chat = "forum"
    /\ sink_state = "ready"
    /\ server_topics \in TopicMaps
    /\ message_mappings = [ts \in Timestamps |-> None]
    /\ async_lock = Free
    /\ save_tasks = 0
    /\ tasks = [t \in Tasks |-> IdleTask]
    /\ rate_limiter = NewLimiter(None, 20)
    /\ alive \in SUBSET (1..MaxTopics)
    /\ topics_created = MaxTopics
    /\ sent = <<>>
    /\ blob \in {NoBlob, Snapshot(server_topics, message_mappings)}
    /\ store_up \in BOOLEAN
    /\ calls = NoCalls
    /\ started = 0
    /\ restarts = 0
    /\ clean = IdleClean

\* list(self.server_topics.items()): the cached entries, in the order the
\* dictionary holds them.
Items(order) == SelectSeq(order, LAMBDA g : server_topics[g] # None)
GuildOrders == {order \in [1..Cardinality(Guilds) -> Guilds] :
                   \A i, j \in DOMAIN order : i # j => order[i] # order[j]}

\* _clean_invalid_topics up to its first probe.
BeginClean(order) ==
    /\ sink_state = "ready"
    /\ clean.pc = "idle"
    /\ clean' = [IdleClean EXCEPT !.pc = "probing",
                                  !.items = [i \in DOMAIN Items(order) |->
                                                [server_name |-> Items(order)[i],
                                                 topic_id |-> server_topics[Items(order)[i]]]],
                                  !.before = server_topics]
    /\ UNCHANGED sinkVars

\* A probe that finds every topic gone.
NeverExists(topic_id, reachable) == FALSE

\* _verify_topic_exists: get_forum_topic succeeds.
TopicExists(topic_id, reachable) == reachable /\ topic_id \in alive

\* One turn of the probing loop.
ProbeTopic(reachable) ==
    /\ clean.pc = "probing"
    /\ clean.items # <<>>
    /\ LET item == Head(clean.items)
           exists == TopicExists(item.topic_id, reachable)
       IN  clean' = [clean EXCEPT
                       !.items = Tail(@),
                       !.invalid_topics = IF exists THEN @ ELSE Append(@, item.server_name),
                       !.probes = Append(@, [server_name |-> item.server_name,
                                             failed |-> ~(reachable /\ item.topic_id \in alive)])]
    /\ UNCHANGED sinkVars

RECURSIVE RemoveTopics(_, _)
\* for server_name in invalid_topics: del self.server_topics[server_name]
RemoveTopics(topics, names) ==
    IF names = <<>> THEN topics
    ELSE RemoveTopics(RemoveTopic(topics, Head(names)), Tail(names))

\* The position of the first name that is no longer a key of the map, 0 when
\* every name still is one.
FirstMissing(topics, names) ==
    LET missing == {i \in DOMAIN names : topics[names[i]] = None}
    IN  IF missing = {} THEN 0
        ELSE CHOOSE i \in missing : \A j \in missing : i <= j

\* After the loop: the removals, the save if anything was removed, the return.
\* del raises KeyError at the first name that is no longer in the map; the
\* call ends there, with the earlier names removed and nothing saved.
FinishClean ==
    /\ clean.pc = "probing"
    /\ clean.items = <<>>
    /\ LET k == FirstMissing(server_topics, clean.invalid_topics)
       IN  IF k # 0
           THEN /\ server_topics' = RemoveTopics(server_topics,
                                        SubSeq(clean.invalid_topics, 1, k - 1))
                /\ clean' = [clean EXCEPT !.pc = "raised"]
                /\ UNCHANGED blob
           ELSE /\ server_topics' = RemoveTopics(server_topics, clean.invalid_topics)
                /\ IF clean.invalid_topics # <<>>
                   THEN /\ blob' = save_persistent_data(server_topics', message_mappings)
                        /\ clean' = [clean EXCEPT !.pc = "done", !.saves = @ + 1,
                                                  !.stored = store_up,
                                                  !.returned = Len(clean.invalid_topics)]
                   ELSE /\ UNCHANGED blob
                        /\ clean' = [clean EXCEPT !.pc = "done",
                                                  !.returned = Len(clean.invalid_topics)]
    /\ UNCHANGED <<use_topics, sink_state, message_mappings, async_lock, save_tasks, tasks,
                   rate_limiter, chat, alive, sent, store_up, calls, started, restarts,
                   topics_created>>

ReconcileNext ==
    \/ \E order \in GuildOrders : BeginClean(order)
    \/ \E reachable \in BOOLEAN : ProbeTopic(reachable)
    \/ FinishClean
    \/ (\E id \in 1..MaxTopics : DeleteTopic(id)) /\ UNCHANGED clean
    \/ StoreFlip /\ UNCHANGED clean

\* The same sink client with a topic cached for each of two guilds, each
\* deleted on the sink side or not; the sink can create one more.
RaceInit ==
    /\ use_topics = TRUE
    /\ chat = "forum"
    /\ sink_state = "ready"
    /\ server_topics \in {topics \in TopicMaps : \A g \in Guilds : topics[g] \in {1, 2}}
    /\ server_topics[CHOOSE g \in Guilds : TRUE] = 1
    /\ message_mappings = [ts \in Timestamps |-> None]
    /\ async_lock = Free
    /\ save_tasks = 0
    /\ tasks = [t \in Tasks |-> IdleTask]
    /\ rate_limiter = NewLimiter(None, 20)
    /\ alive \in SUBSET {1, 2}
    /\ topics_created = 2
    /\ sent = <<>>
    /\ blob = Snapshot(server_topics, message_mappings)
    /\ store_up = TRUE
    /\ calls = NoCalls
    /\ started = 0
    /\ restarts = 0
    /\ clean = IdleClean

\* The reconciliation is suspended in an await: it has not started, has
\* returned, or has a probe outstanding.  After its last probe it runs to its
\* end without giving up the event loop.
CleanSuspended == ~(clean.pc = "probing" /\ clean.items = <<>>)

\* A step of a send_message call or of the sink side, taken while the
\* reconciliation is suspended.
Meanwhile(A) == CleanSuspended /\ A /\ UNCHANGED clean

\* The caller whose send_message calls run next to the reconciliation.
RaceSender == "caller1"

\* _clean_invalid_topics while send_message calls run on the same event loop
\* and the sink answers every probe.
RaceNext ==
    \/ \E order \in GuildOrders : BeginClean(order)
    \/ ProbeTopic(TRUE)
    \/ FinishClean
    \/ Meanwhile(\E g \in Guilds, ts \in Timestamps : StartSend(RaceSender, g, ts))
    \/ Meanwhile(\E ok \in BOOLEAN : WaitIfNeeded(RaceSender, ok))
    \/ Meanwhile(LockAndLookup(RaceSender))
    \/ Meanwhile(\E ok \in BOOLEAN : VerifyTopicExists(RaceSender, ok))
    \/ Meanwhile(DropStaleTopic(RaceSender))
    \/ Meanwhile(\E ok \in BOOLEAN : CreateTopic(RaceSender, ok))
    \/ Meanwhile(\E ok \in BOOLEAN : SendMessage(RaceSender, ok))
    \/ Meanwhile(RunSaveTask)

(***************************************************************************)
(* Adaptive feedback of the rate limiter (RateLimiter.record_success,      *)
(* record_error, reset_stats) under arbitrarily long call sequences, with  *)
(* acquire calls in between.                                               *)
(***************************************************************************)
VARIABLES
    feedback_run    \* history: the latest call, and the record_error calls made in a
                    \* row on a limiter fresh from construction or reset_stats

feedbackVars == <<feedback_run>>

FreshRun == [last |-> "none", errors |-> 0, fresh |-> TRUE]

FeedbackIdle == feedback_run = FreshRun

\* A limiter as the services construct it, with a per-minute cap.
FeedbackInit ==
    /\ limiter = NewLimiter(None, 2)
    /\ now = 0
    /\ last_acquire = NoAcquire
    /\ granted = <<>>
    /\ acquires = 0
    /\ feedbacks = 0
    /\ advances = 0
    /\ feedback_run = FreshRun

\* reset_stats: counters to 0, multiplier to 1.0.
reset_stats(l) ==
    [l EXCEPT !.error_count = 0, !.success_count = 0,
              !.adaptive_multiplier = 100, !.may_exceed = FALSE]

\* record_error() is called.
FeedbackError ==
    /\ limiter' = record_error(limiter)
    /\ feedback_run' = IF feedback_run.fresh /\ feedback_run.errors < MaxErrorRun
                       THEN [feedback_run EXCEPT !.last = "record_error",
                                                 !.errors = @ + 1]
                       ELSE [last |-> "record_error", errors |-> 0, fresh |-> FALSE]
    /\ UNCHANGED <<now, last_acquire, granted, acquires, feedbacks, advances>>

\* record_success() is called.
FeedbackSuccess ==
    /\ limiter' = record_success(limiter)
    /\ feedback_run' = [last |-> "record_success", errors |-> 0, fresh |-> FALSE]
    /\ UNCHANGED <<now, last_acquire, granted, acquires, feedbacks, advances>>

\* reset_stats() is called.
ResetStats ==
    /\ feedback_run.last # "reset_stats"
    /\ limiter' = reset_stats(limiter)
    /\ feedback_run' = [last |-> "reset_stats", errors |-> 0, fresh |-> TRUE]
    /\ UNCHANGED <<now, last_acquire, granted, acquires, feedbacks, advances>>

\* acquire(identifier) is called between two feedback calls.
FeedbackAcquire(identifier) ==
    /\ acquires < MaxFeedbackAcquires
    /\ acquire(identifier, FALSE, FALSE)
    /\ feedback_run' = [feedback_run EXCEPT !.last = "acquire"]

FeedbackNext ==
    \/ FeedbackError
    \/ FeedbackSuccess
    \/ ResetStats
    \/ FeedbackAcquire("telegram_send")

(***************************************************************************)
(* Waiting for the limiter: wait_if_needed and wait_if_needed_safe         *)
(* (app/utils/rate_limiter.py, lines 74-97).  Several callers wait on one  *)
(* limiter.  A caller runs from the return of acquire through the timeout  *)
(* check to asyncio.sleep without suspending, so that is one step; the     *)
(* sleep ends in a step of its own.  Time is the limiter's clock.          *)
(***************************************************************************)
VARIABLES waiters

waitVars == <<waiters>>

Waiters == {"w1", "w2"}
MaxWaits == {0, 1}          \* max_wait, in ticks
MaxWaitClock == 4           \* the clock stops here

IdleWaiter == [pc |-> "idle", key |-> "none", safe |-> FALSE, max_wait |-> 0,
               start_time |-> 0, ended_at |-> 0, won |-> 0, outcome |-> "none"]

WaitIdle == waiters = [w \in Waiters |-> IdleWaiter]

\* One limiter with a cap of one a second, of one a minute, or both.
WaitInit ==
    /\ \E per_second \in {None, 10}, per_minute \in {None, 1} :
          /\ per_second # None \/ per_minute # None
          /\ limiter = NewLimiter(per_second, per_minute)
    /\ now = 0
    /\ last_acquire = NoAcquire
    /\ granted = <<>>
    /\ acquires = 0
    /\ feedbacks = 0
    /\ advances = 0
    /\ WaitIdle

\* acquire(identifier) with the multiplier at an exact product: the buckets
\* it leaves and the value it returns.
acquired(identifier) ==
    LET main == MainKey(identifier)
        bucket0 == IF main \in DOMAIN limiter.buckets
                   THEN limiter.buckets[main] ELSE RateLimitBucket(window_seconds)
        bucket == IF now >= bucket0.reset_time
                  THEN [bucket0 EXCEPT !.requests = 0,
                          !.reset_time = now + bucket0.window_seconds * TicksPerSecond]
                  ELSE bucket0
        second_bucket_key == SecondKey(identifier, now \div TicksPerSecond)
        second_bucket == IF second_bucket_key \in DOMAIN limiter.buckets
                         THEN limiter.buckets[second_bucket_key] ELSE RateLimitBucket(1)
        minute_full == /\ limiter.requests_per_minute # None
                       /\ AtLimit(bucket.requests, limiter.requests_per_minute, 1,
                                  limiter, FALSE)
        second_full == /\ limiter.requests_per_second # None
                       /\ AtLimit(second_bucket.requests, limiter.requests_per_second, 10,
                                  limiter, FALSE)
        with_main == (main :> bucket) @@ limiter.buckets
        with_second == IF limiter.requests_per_second # None
                       THEN (second_bucket_key :> second_bucket) @@ with_main
                       ELSE with_main
        counted == [k \in DOMAIN with_second |->
                      IF k = main \/ (k = second_bucket_key
                                      /\ limiter.requests_per_second # None)
                      THEN [with_second[k] EXCEPT !.requests = @ + 1]
                      ELSE with_second[k]]
    IN  [buckets |-> IF minute_full THEN with_main
                     ELSE IF second_full THEN with_second ELSE counted,
         result |-> ~minute_full /\ ~second_full]

\* A wait that never times out.
NeverExpired(w) == FALSE

\* time.time() - start_time > max_wait
Expired(w) == now - waiters[w].start_time > waiters[w].max_wait

\* wait_if_needed or wait_if_needed_safe is called: start_time is read and the
\* loop is entered.
StartWait(w, identifier, safe, max_wait) ==
    /\ waiters[w].pc = "idle"
    /\ now + max_wait < MaxWaitClock
    /\ waiters' = [waiters EXCEPT ![w] = [IdleWaiter EXCEPT
                      !.pc = "acquire", !.key = identifier, !.safe = safe,
                      !.max_wait = max_wait, !.start_time = now]]
    /\ UNCHANGED limiterVars

\* One turn of the loop: acquire; on True return True; on False raise
\* TimeoutError if the wait has expired (the safe variant catches it and
\* returns False), else go to sleep.
WaitAcquire(w) ==
    LET a == acquired(waiters[w].key)
    IN  /\ waiters[w].pc = "acquire"
        /\ limiter' = [limiter EXCEPT !.buckets = a.buckets]
        /\ last_acquire' = [key |-> waiters[w].key, result |-> a.result]
        /\ granted' = IF a.result
                      THEN Append(granted, [key |-> waiters[w].key, at |-> now])
                      ELSE granted
        /\ waiters' = [waiters EXCEPT ![w] =
              IF a.result
              THEN [@ EXCEPT !.pc = "done", !.won = @ + 1, !.outcome = "True",
                             !.ended_at = now]
              ELSE IF Expired(w)
              THEN [@ EXCEPT !.pc = "done", !.ended_at = now,
                             !.outcome = IF waiters[w].safe THEN "False"
                                         ELSE "TimeoutError"]
              ELSE [@ EXCEPT !.pc = "sleep"]]
        /\ UNCHANGED <<now, acquires, feedbacks, advances>>

\* asyncio.sleep(0.1) is over.
WakeUp(w) ==
    /\ waiters[w].pc = "sleep"
    /\ waiters' = [waiters EXCEPT ![w].pc = "acquire"]
    /\ UNCHANGED limiterVars

\* Half a second passes.
Tick ==
    /\ now < MaxWaitClock
    /\ now' = now + 1
    /\ UNCHANGED <<limiter, last_acquire, granted, acquires, feedbacks, advances, waiters>>

WaitNext ==
    \/ \E w \in Waiters, safe \in BOOLEAN, max_wait \in MaxWaits :
          StartWait(w, "telegram_send", safe, max_wait)
    \/ \E w \in Waiters : WaitAcquire(w)
    \/ \E w \in Waiters : WakeUp(w)
    \/ Tick

(***************************************************************************)
(* Eviction of limiter buckets: RateLimiter.clear_old_buckets              *)
(* (app/utils/rate_limiter.py, lines 137-148) and the same filter written  *)
(* out in MessageProcessor._cleanup_loop (app/services/message_processor.py,*)
(* lines 282-292), between acquire calls.  The clock reads the time of day *)
(* in ticks since the epoch, which is far more than an hour.               *)
(***************************************************************************)
VARIABLES evicted   \* history: the last eviction and the max ages used so far

evictVars == <<evicted>>

Epoch == 8000                   \* time.time() at the start, in ticks
max_age_seconds == 3600         \* clear_old_buckets' default, the cleanup loop's cutoff
MaxAges == {0, max_age_seconds} \* max_age_seconds passed to clear_old_buckets

NoEviction == [by |-> "none", max_age |-> 0, removed |-> {}, returned |-> NotReturned,
               ages |-> {}]

EvictIdle == evicted = NoEviction

\* A limiter with a cap of two a second, with or without a cap of two a
\* minute, at multiplier 1.0 with three errors counted.
EvictInit ==
    /\ \E per_second \in {20}, per_minute \in {None, 2},
          f \in {s \in FeedbackStates : s.adaptive_multiplier = 100 /\ s.error_count = 3} :
          /\ limiter = [NewLimiter(per_second, per_minute) EXCEPT
                          !.success_count = f.success_count,
                          !.error_count = f.error_count]
    /\ now = Epoch
    /\ last_acquire = NoAcquire
    /\ granted = <<>>
    /\ acquires = 0
    /\ feedbacks = 0
    /\ advances = 0
    /\ evicted = NoEviction

\* A filter that takes every bucket for old.
AlwaysOld(bucket, max_age) == TRUE

\* bucket.reset_time < now - max_age_seconds
Old(bucket, max_age) == bucket.reset_time < now - max_age * TicksPerSecond

\* The buckets left when the old ones are deleted.
Evict(buckets, max_age) ==
    LET kept == {k \in DOMAIN buckets : ~Old(buckets[k], max_age)}
    IN  [k \in kept |-> buckets[k]]

\* clear_old_buckets(max_age_seconds): no await, one step.
ClearOldBuckets(max_age) ==
    /\ limiter' = [limiter EXCEPT !.buckets = Evict(@, max_age)]
    /\ evicted' = [by |-> "clear_old_buckets", max_age |-> max_age,
                   removed |-> DOMAIN limiter.buckets \ DOMAIN limiter'.buckets,
                   returned |-> Cardinality(DOMAIN limiter.buckets
                                              \ DOMAIN limiter'.buckets),
                   ages |-> evicted.ages \cup {max_age}]
    /\ UNCHANGED <<now, last_acquire, granted, acquires, feedbacks, advances>>

\* The cleanup loop's turn for one service: cutoff_time = now - 3600, collect
\* the keys below it, delete them.
CleanupLoopEvict ==
    /\ limiter' = [limiter EXCEPT !.buckets = Evict(@, max_age_seconds)]
    /\ evicted' = [by |-> "_cleanup_loop", max_age |-> max_age_seconds,
                   removed |-> DOMAIN limiter.buckets \ DOMAIN limiter'.buckets,
                   returned |-> NotReturned,
                   ages |-> evicted.ages \cup {max_age_seconds}]
    /\ UNCHANGED <<now, last_acquire, granted, acquires, feedbacks, advances>>

\* The clock moves on by one tick, or past the hour that follows the end of a
\* minute window.
EvictAdvances == {1, (max_age_seconds + window_seconds) * TicksPerSecond + 1}

EvictNext ==
    \/ \E identifier \in Keys : acquire(identifier, FALSE, FALSE) /\ UNCHANGED evicted
    \/ \E max_age \in MaxAges : ClearOldBuckets(max_age)
    \/ CleanupLoopEvict
    \/ \E ticks \in EvictAdvances : Advance(ticks) /\ UNCHANGED evicted

(***************************************************************************)
(* Recent pull: DiscordService.get_recent_messages past the session choice *)
(* (app/services/discord_service.py, lines 273-357).  A payload of the     *)
(* response is described by its timestamp and by whether its content is    *)
(* empty, which is what DiscordMessage's validation rejects.               *)
(***************************************************************************)
VARIABLES
    channels,   \* per channel of the server: message_count and last_message_time
    fetched     \* history: the last get_recent_messages call, its response and result

pullVars == <<channels, fetched>>

MaxFetches == 2         \* get_recent_messages calls per behaviour
MaxRaw == 3             \* payloads in one response
Discovered == CHOOSE s \in ServerMaps : s # {}
ChannelIds == {c.channel : c \in Discovered}

NoFetch == [server_name |-> "none", channel_id |-> "none", requested |-> FALSE,
            how |-> "none", raw |-> <<>>, result |-> <<>>]

PullIdle ==
    /\ channels = [c \in ChannelIds |-> [message_count |-> 0, last_message_time |-> None]]
    /\ fetched = NoFetch

\* An initialized source client with one session and one server in servers.
PullInit ==
    /\ discord_tokens = <<Valid>>
    /\ sessions = <<1>>
    /\ closed = {}
    /\ current_token_index = 0
    /\ servers = Discovered
    /\ validated = 1
    /\ initialized = "ok"
    /\ pulls = <<>>
    /\ PullIdle

\* The responses of the source: up to MaxRaw payloads, newest first, each
\* numbered by its place, with or without content.
RawResponses ==
    UNION {{[i \in 1..len |-> [ts |-> tss[i], content |-> cs[i], n |-> i]] :
               tss \in {t \in [1..len -> Timestamps] :
                           \A i, j \in 1..len : i < j => t[i] >= t[j]},
               cs \in [1..len -> {"text", ""}]} :
           len \in 0..MaxRaw}

\* A conversion that accepts every payload.
ConvertsAll(raw_msg) == TRUE

\* DiscordMessage(content=raw_msg['content'], ...) does not raise.
Converts(raw_msg) == raw_msg.content # ""

\* for raw_msg in raw_messages: try: messages.append(DiscordMessage(...))
\* except: continue
Converted(raw_messages) == SelectSeq(raw_messages, Converts)

\* get_recent_messages.  how: the response is a 200, another status, or the
\* wait or the request raises.
PullRecent(server_name, channel_id, how, raw_messages) ==
    /\ initialized = "ok"
    /\ Len(pulls) < MaxFetches
    /\ IF \E c \in servers : c.server = server_name /\ c.channel = channel_id
                             /\ c.http_accessible
       THEN /\ pulls' = Append(pulls, get_next_session)
            /\ current_token_index' = next_token_index
            /\ IF how = "200"
               THEN LET messages == Converted(raw_messages)
                    IN  /\ limiter' = record_success(limiter)
                        /\ channels' = [channels EXCEPT
                              ![channel_id].message_count = @ + Len(messages),
                              ![channel_id].last_message_time =
                                  IF messages # <<>> THEN messages[1].ts ELSE @]
                        /\ fetched' = [server_name |-> server_name,
                                       channel_id |-> channel_id, requested |-> TRUE,
                                       how |-> how, raw |-> raw_messages,
                                       result |-> SortByTimestamp(messages)]
               ELSE /\ limiter' = record_error(limiter)
                    /\ fetched' = [server_name |-> server_name, channel_id |-> channel_id,
                                   requested |-> TRUE, how |-> how, raw |-> <<>>,
                                   result |-> <<>>]
                    /\ UNCHANGED channels
       ELSE /\ pulls' = Append(pulls, None)
            /\ fetched' = [server_name |-> server_name, channel_id |-> channel_id,
                           requested |-> FALSE, how |-> "none", raw |-> <<>>,
                           result |-> <<>>]
            /\ UNCHANGED <<current_token_index, limiter, channels>>
    /\ UNCHANGED <<discord_tokens, sessions, closed, servers, validated, initialized,
                   now, last_acquire, granted, acquires, feedbacks, advances>>

PullNext ==
    \E server_name \in ServerNamesAsked, channel_id \in ChannelsAsked,
       how \in {"200", "500", "raises"}, raw_messages \in RawResponses :
        /\ how # "200" => raw_messages = <<>>
        /\ PullRecent(server_name, channel_id, how, raw_messages)

(***************************************************************************)
(* Initial backfill (MessageProcessor._perform_initial_sync)               *)
(*                                                                         *)
(* The function walks DiscordService.servers in insertion order, skips     *)
(* every ServerInfo whose status is not ACTIVE, and for an ACTIVE one      *)
(* evaluates server_info.accessible_channels in the header of its channel  *)
(* loop, outside the try block of the loop body.  ServerInfo is the class  *)
(* of app/models/server.py, which the services import.  No await is        *)
(* reached before that header, so the walk up to it is one step.           *)
(***************************************************************************)
VARIABLES
    server_infos,   \* DiscordService.servers as ServerInfo objects, in dict order
    initial_sync    \* the call of _perform_initial_sync and what it did

backfillVars == <<server_infos, initial_sync>>

ServerStatus == {"active", "inactive", "error", "pending"}
\* The fields, properties and methods class ServerInfo defines.
ServerInfoAttributes ==
    {"server_name", "guild_id", "channels", "max_channels", "status", "last_sync",
     "error_message", "telegram_topic_id", "topic_created_at", "total_messages",
     "active_channels", "last_activity", "validate_channel_count",
     "accessible_channel_count", "add_channel", "remove_channel", "update_stats"}

BackfillGuilds == <<"Alpha", "Beta">>
BackfillChannels == {"c1", "c2"}
\* A ServerInfo: its name, its status, and http_accessible of each channel.
ServerInfos(server_name) ==
    [server_name : {server_name}, status : ServerStatus,
     channels : [BackfillChannels -> BOOLEAN]]

\* pulled: the get_recent_messages calls made, as <<server, channel>>;
\* handed: the lists passed to send_messages_batch; delivered: the sum of the
\* counts they returned; before: messages_processed_total at the call.
NoSync == [pc |-> "idle", at |-> 0, error |-> "none", total_messages |-> 0,
           pulled |-> <<>>, handed |-> <<>>, delivered |-> 0, before |-> 0]

BackfillIdle ==
    /\ server_infos = <<>>
    /\ initial_sync = NoSync

\* A servers map of one or two ServerInfo objects.
BackfillInit ==
    /\ \E n \in 1..Len(BackfillGuilds) :
          server_infos \in {s \in [1..n -> UNION {ServerInfos(BackfillGuilds[i]) : i \in 1..n}] :
                               \A i \in 1..n : s[i].server_name = BackfillGuilds[i]}
    /\ initial_sync = NoSync

\* The place of the first ServerInfo the status test lets through, 0 if none.
FirstActive ==
    IF \E i \in DOMAIN server_infos : server_infos[i].status = "active"
    THEN CHOOSE i \in DOMAIN server_infos :
            /\ server_infos[i].status = "active"
            /\ \A j \in 1..(i - 1) : server_infos[j].status # "active"
    ELSE 0

\* _perform_initial_sync up to its first await or its end.
PerformInitialSync ==
    /\ initial_sync.pc = "idle"
    /\ IF FirstActive = 0
       THEN /\ initial_sync' = [initial_sync EXCEPT
                                   !.pc = "returned",
                                   !.before = stats.messages_processed_total]
            /\ stats' = [stats EXCEPT !.messages_processed_total =
                                          @ + initial_sync.total_messages]
       ELSE /\ initial_sync' = [initial_sync EXCEPT
                                   !.pc = IF "accessible_channels" \in ServerInfoAttributes
                                          THEN "pulling" ELSE "raised",
                                   !.error = IF "accessible_channels" \in ServerInfoAttributes
                                             THEN "none" ELSE "AttributeError",
                                   !.at = FirstActive,
                                   !.before = stats.messages_processed_total]
            /\ UNCHANGED stats
    /\ UNCHANGED server_infos

BackfillNext == PerformInitialSync

(***************************************************************************)
(* Configuration load (app/config.py, class Settings)                      *)
(*                                                                         *)
(* pydantic validates the fields in the order of their definition:        *)
(* max_channels_per_server, max_total_channels, max_servers.  A field that *)
(* is not configured takes its default without its validator being run; a  *)
(* configured field is checked against its range and then handed to its    *)
(* validator together with `values`, the fields that were validated before *)
(* it and passed.                                                          *)
(***************************************************************************)
VARIABLES
    env,            \* the configured values, None for a field left out
    settings        \* the outcome of Settings()

configVars == <<env, settings>>

PerServerValues == {None, 1, 5, 10, 20, 21}
TotalValues == {None, 10, 50, 60, 100, 101}
ServersValues == {None, 1, 2, 10, 15, 16}

default_max_channels_per_server == 10
default_max_total_channels == 50
default_max_servers == 10

NotLoaded == [outcome |-> "none", errors |-> {}, max_channels_per_server |-> None,
              max_total_channels |-> None, max_servers |-> None]

ConfigIdle ==
    /\ env = [max_channels_per_server |-> None, max_total_channels |-> None,
              max_servers |-> None]
    /\ settings = NotLoaded

ConfigInit ==
    /\ env \in [max_channels_per_server : PerServerValues,
                max_total_channels : TotalValues,
                max_servers : ServersValues]
    /\ settings = NotLoaded

\* Field(ge=..., le=...) of the three fields.
PerServerInRange(v) == v >= 1 /\ v <= 20
TotalInRange(v) == v >= 10 /\ v <= 100
ServersInRange(v) == v >= 1 /\ v <= 15

\* `values` when max_total_channels is validated: the fields defined before
\* it that passed, with their defaults when left out.
ValuesBeforeTotal(e) ==
    IF e.max_channels_per_server = None
    THEN [max_channels_per_server |-> default_max_channels_per_server]
    ELSE IF PerServerInRange(e.max_channels_per_server)
         THEN [max_channels_per_server |-> e.max_channels_per_server]
         ELSE <<>>

\* values.get(name, 10)
Get(values, name) == IF name \in DOMAIN values THEN values[name] ELSE 10

\* validate_channel_limits(cls, v, values): TRUE when it returns v, FALSE
\* when it raises ValueError.
validate_channel_limits(v, values) ==
    LET max_per_server == Get(values, "max_channels_per_server")
        max_servers == Get(values, "max_servers")
        theoretical_max == max_per_server * max_servers
    IN  ~(v > theoretical_max)

\* The fields whose validation fails.
FieldErrors(e) ==
    {f \in {"max_channels_per_server"} :
        e.max_channels_per_server # None /\ ~PerServerInRange(e.max_channels_per_server)}
    \cup
    {f \in {"max_total_channels"} :
        /\ e.max_total_channels # None
        /\ \/ ~TotalInRange(e.max_total_channels)
           \/ ~validate_channel_limits(e.max_total_channels, ValuesBeforeTotal(e))}
    \cup
    {f \in {"max_servers"} : e.max_servers # None /\ ~ServersInRange(e.max_servers)}

\* Settings(): the load either raises ValidationError or yields the fields.
LoadSettings ==
    /\ settings.outcome = "none"
    /\ settings' =
          IF FieldErrors(env) # {}
          THEN [NotLoaded EXCEPT !.outcome = "rejected", !.errors = FieldErrors(env)]
          ELSE [outcome |-> "loaded", errors |-> {},
                max_channels_per_server |->
                    IF env.max_channels_per_server = None
                    THEN default_max_channels_per_server ELSE env.max_channels_per_server,
                max_total_channels |->
                    IF env.max_total_channels = None
                    THEN default_max_total_channels ELSE env.max_total_channels,
                max_servers |->
                    IF env.max_servers = None
                    THEN default_max_servers ELSE env.max_servers]
    /\ UNCHANGED env

ConfigNext == LoadSettings

(***************************************************************************)
(* Statistics counters (MessageProcessor.stats) under every writer:        *)
(* _process_single_message, the two batch flushers, the initial backfill's *)
(* direct batch send, and the daily reset of _cleanup_loop.  A send is     *)
(* described by its result.  None of the writers awaits between its        *)
(* updates of the counters, so each update is one step.                    *)
(***************************************************************************)
VARIABLES
    wall_date,      \* datetime.now().date(), counted in days from the start
    last_cleanup,   \* the date of self.last_cleanup
    singles         \* _process_single_message calls made

countersVars == <<wall_date, last_cleanup, singles>>

MaxDays == 1            \* midnights that pass
MaxSingles == 1         \* _process_single_message calls per behaviour

CountersIdle ==
    /\ wall_date = 0
    /\ last_cleanup = 0
    /\ singles = 0

\* _process_single_message, with what send_message returned or raised.
ProcessSingleMessage(outcome) ==
    /\ singles < MaxSingles
    /\ singles' = singles + 1
    /\ stats' = CASE outcome = "sent" -> CountSuccess(stats)
                  [] outcome = "failed" ->
                        CountError(stats, "Failed to send message to Telegram")
                  [] outcome = "raised" -> CountError(stats, "exception")
    /\ UNCHANGED <<wall_date, last_cleanup, limiter, rate_limiter>>

\* Midnight passes.
Midnight ==
    /\ wall_date < MaxDays
    /\ wall_date' = wall_date + 1
    /\ UNCHANGED <<last_cleanup, singles, stats, limiter, rate_limiter>>

\* One turn of _cleanup_loop after its sleep: delete the old buckets of both
\* services' limiters, reset the daily counters when the date has changed
\* since the last turn, and remember the time of this turn.
CleanupLoop ==
    /\ limiter' = [limiter EXCEPT !.buckets = Evict(@, max_age_seconds)]
    /\ rate_limiter' = [rate_limiter EXCEPT !.buckets = Evict(@, max_age_seconds)]
    /\ stats' = IF wall_date > last_cleanup
                THEN [stats EXCEPT !.messages_processed_today = 0,
                                   !.errors_last_hour = 0]
                ELSE stats
    /\ last_cleanup' = wall_date
    /\ UNCHANGED <<wall_date, singles>>

\* What the initial backfill passes to the batch send.
BackfillBatch == <<[g |-> "Alpha", ts |-> 1, n |-> 1]>>

CountersNext ==
    \/ /\ \/ FlushNext
          \/ DirectBatch(BackfillBatch)
       /\ UNCHANGED <<countersVars, limiter, rate_limiter>>
    \/ /\ \/ \E outcome \in {"sent", "failed", "raised"} : ProcessSingleMessage(outcome)
          \/ Midnight
          \/ CleanupLoop
       /\ UNCHANGED batchVars

(***************************************************************************)
(* The persistent blob and its two stores (TelegramService                 *)
(* _save_persistent_data, _load_persistent_data, _load_from_file,          *)
(* _load_from_redis; app/dependencies.py for the client).                  *)
(*                                                                         *)
(* A dict is a function from its keys; the JSON document holds each dict   *)
(* as a set of members.  With a KV store the client is the one             *)
(* redis.from_url returns, whose get and setex do their work during the    *)
(* call and return a plain value; awaiting that value raises TypeError.    *)
(***************************************************************************)
VARIABLES
    redis_client,   \* whether settings.redis_url names a KV store
    document,       \* the document in the store (file or key), or NoDocument
    writer,         \* the sink client that saves: its maps and its last save
    fresh           \* a sink client constructed later: what its initialize() did

persistVars == <<redis_client, document, writer, fresh>>

TopicIds == {1, 2}              \* topic ids a map holds
MessageIds == {7}               \* sink message ids a mapping holds
MessageKeys == {"t1", "t2"}     \* str(message.timestamp)
MaxSaves == 2                   \* _save_persistent_data calls per behaviour

\* What the store holds: nothing, a file that was opened for writing and not
\* completed, or a JSON document; EmptyData is the {} a loader returns.
NoDocument == [kind |-> "none", topics |-> {}, messages |-> {}]
Truncated == [kind |-> "truncated", topics |-> {}, messages |-> {}]
EmptyData == [kind |-> "empty", topics |-> {}, messages |-> {}]
Dicts(keys, values) == UNION {[d -> values] : d \in SUBSET keys}

NotSaved == [how |-> "none", logged |-> FALSE, send_result |-> FALSE, saves |-> 0]
NotInitialized == [pc |-> "new", server_topics |-> <<>>, message_mappings |-> <<>>,
                   logged |-> FALSE, found |-> NoDocument]

PersistIdle ==
    /\ redis_client = FALSE
    /\ document = NoDocument
    /\ writer = [server_topics |-> <<>>, message_mappings |-> <<>>, last |-> NotSaved]
    /\ fresh = NotInitialized

\* A sink client with maps to save, on either store, with no document yet.
PersistInit ==
    /\ redis_client \in BOOLEAN
    /\ document = NoDocument
    /\ \E topics \in Dicts(Guilds, TopicIds), messages \in Dicts(MessageKeys, MessageIds) :
          writer = [server_topics |-> topics, message_mappings |-> messages,
                    last |-> NotSaved]
    /\ fresh = NotInitialized

\* json.dumps of a dict with string keys, and json.loads of the object.
Encode(dict) == {<<k, dict[k]>> : k \in DOMAIN dict}
Decode(members) ==
    [k \in {m[1] : m \in members} |-> CHOOSE v \in {m[2] : m \in members} : <<k, v>> \in members]

\* data = {'topics': ..., 'messages': ..., 'last_updated': ...}, dumped; no
\* reader uses last_updated.
Dumped(topics, messages) ==
    [kind |-> "json", topics |-> Encode(topics), messages |-> Encode(messages)]

\* _save_persistent_data as the last step of a send_message whose message
\* went out (lines 184-186), with what the store does with the write.  The
\* call returns None in every case and send_message goes on to return True.
SavePersistentData(store_does) ==
    /\ writer.last.saves < MaxSaves
    /\ store_does = "truncates" => ~redis_client
    /\ document' = CASE store_does = "writes" ->
                           Dumped(writer.server_topics, writer.message_mappings)
                     [] store_does = "refuses" -> document
                     [] store_does = "truncates" -> Truncated
    /\ writer' = [writer EXCEPT
                    !.last = [how |-> store_does,
                              logged |-> redis_client \/ store_does # "writes",
                              send_result |-> TRUE,
                              saves |-> writer.last.saves + 1]]
    /\ UNCHANGED <<redis_client, fresh>>

\* The key set by setex(…, cache_ttl_seconds, …) expires.
Expire ==
    /\ redis_client
    /\ document # NoDocument
    /\ document' = NoDocument
    /\ UNCHANGED <<redis_client, writer, fresh>>

\* _load_from_file: {} for a missing file and for one that does not parse.
load_from_file ==
    IF document.kind = "json" THEN document ELSE EmptyData

\* _load_from_redis: `await self.redis_client.get(...)` raises TypeError on
\* the value get returned, and the except branch returns {}.
load_from_redis == EmptyData

\* data.get(name, {})
Field(data, name) == Decode(data[name])

\* initialize() of a sink client constructed after the saves: getMe, then
\* _load_persistent_data, then _verify_chat_access on a forum chat.
InitializeFresh ==
    /\ fresh.pc = "new"
    /\ LET data == IF redis_client THEN load_from_redis ELSE load_from_file
       IN  fresh' = [pc |-> "ready",
                     server_topics |-> IF data # EmptyData THEN Field(data, "topics")
                                       ELSE fresh.server_topics,
                     message_mappings |-> IF data # EmptyData THEN Field(data, "messages")
                                          ELSE fresh.message_mappings,
                     logged |-> \/ redis_client
                                \/ ~redis_client /\ document = Truncated,
                     found |-> document]
    /\ UNCHANGED <<redis_client, document, writer>>

PersistNext ==
    \/ \E store_does \in {"writes", "refuses", "truncates"} : SavePersistentData(store_does)
    \/ Expire
    \/ InitializeFresh

(***************************************************************************)
(* Discovery (DiscordService._discover_servers, _process_guild) and the    *)
(* ServerInfo methods it uses (app/models/server.py).                      *)
(*                                                                         *)
(* server_map is DiscordService.servers keyed by guild name.  discovery    *)
(* holds the run in progress: the guilds still to process, the ServerInfo  *)
(* under construction and the announcement channels still to add.  record  *)
(* is one ServerInfo on which the methods are called directly.             *)
(***************************************************************************)
VARIABLES
    server_map,     \* DiscordService.servers
    discovery,      \* the _discover_servers run in progress and what the runs did
    record          \* a ServerInfo and the outcome of the last method called on it

discoveryVars == <<server_map, discovery, record>>

MaxRuns == 2                    \* discovery runs: initialize() and one periodic sync
MaxCalls == 3                   \* add_channel calls made on record
ChannelLists == {<<>>, <<"c1">>, <<"c1", "c2">>, <<"c1", "c2", "c3">>}
GuildLists == {<<>>, <<"Alpha">>, <<"Beta">>, <<"Alpha", "Beta">>}
ChannelLimits == {1, 2}         \* max_channels_per_server and max_channels
ServerLimits == {1, 2}          \* max_servers

\* ChannelInfo(channel_id=...), with the access flags at their defaults
ChannelInfo(channel_id) ==
    [channel_id |-> channel_id, http_accessible |-> FALSE, websocket_accessible |-> FALSE]

\* ServerInfo(server_name=..., guild_id=..., max_channels=...)
ServerInfo(server_name, max_channels) ==
    [server_name |-> server_name, channels |-> <<>>, max_channels |-> max_channels,
     status |-> "pending", active_channels |-> 0]

is_accessible(channel_info) ==
    channel_info.http_accessible \/ channel_info.websocket_accessible

at_limit_exceeded(info) == Cardinality(DOMAIN info.channels) > info.max_channels

\* add_channel refuses at the limit
at_limit(info) == Cardinality(DOMAIN info.channels) >= info.max_channels

\* ServerInfo.add_channel: the return value and the object afterwards
add_channel(info, channel_info) ==
    IF at_limit(info)
    THEN [returned |-> FALSE, info |-> info]
    ELSE [returned |-> TRUE,
          info |-> [info EXCEPT !.channels =
                       [c \in DOMAIN @ \cup {channel_info.channel_id} |->
                           IF c = channel_info.channel_id THEN channel_info ELSE @[c]]]]

\* ServerInfo.remove_channel
remove_channel(info, channel_id) ==
    IF channel_id \in DOMAIN info.channels
    THEN [returned |-> TRUE,
          info |-> [info EXCEPT !.channels = [c \in DOMAIN @ \ {channel_id} |-> @[c]]]]
    ELSE [returned |-> FALSE, info |-> info]

\* ServerInfo.update_stats: its first statement reads accessible_channel_count,
\* which reads self.accessible_channels.
update_stats(info) ==
    IF "accessible_channels" \in ServerInfoAttributes
    THEN LET count == Cardinality({c \in DOMAIN info.channels : is_accessible(info.channels[c])})
         IN  [raised |-> FALSE,
              info |-> [info EXCEPT !.active_channels = count,
                                    !.status = IF count > 0 THEN "active" ELSE "inactive"]]
    ELSE [raised |-> TRUE, info |-> info]

Take(seq, n) == SubSeq(seq, 1, IF Len(seq) < n THEN Len(seq) ELSE n)

NoServerInfo == ServerInfo("", 1)
NoRun == [sessions |-> FALSE,
          pc |-> "idle", runs |-> 0, guilds |-> <<>>, server_info |-> NoServerInfo,
          announcement_channels |-> <<>>, max_servers |-> 1, max_channels_per_server |-> 1,
          populated |-> <<>>, refused |-> {}, errors |-> {}]
NoCall == [info |-> NoServerInfo, call |-> "none", returned |-> FALSE, raised |-> FALSE,
           before |-> NoServerInfo, calls |-> 0]

DiscoveryIdle ==
    /\ server_map = <<>>
    /\ discovery = NoRun
    /\ record = NoCall

\* Either a source client with a session and its limits before its first
\* discovery, or a source client without sessions and a ServerInfo as
\* _process_guild constructs it, on which the methods are called.
DiscoveryInit ==
    /\ server_map = <<>>
    /\ \/ /\ \E s \in ServerLimits, c \in ChannelLimits :
                discovery = [NoRun EXCEPT !.sessions = TRUE, !.max_servers = s,
                                          !.max_channels_per_server = c]
          /\ record = NoCall
       \/ /\ discovery = NoRun
          /\ \E c \in ChannelLimits :
                record = [NoCall EXCEPT !.info = ServerInfo("Alpha", c),
                                        !.before = ServerInfo("Alpha", c)]

\* The guild at hand is done: the next one, or the end of the run.
NextGuild(d) ==
    IF Len(d.guilds) > 1
    THEN [d EXCEPT !.pc = "guilds", !.guilds = Tail(@)]
    ELSE [d EXCEPT !.pc = "idle", !.guilds = <<>>, !.runs = @ + 1]

\* _discover_servers up to the answer to the guild list request.
DiscoverServers(status, guilds) ==
    /\ discovery.pc = "idle"
    /\ discovery.runs < MaxRuns
    /\ discovery' =
          IF discovery.sessions /\ status = 200 /\ guilds # <<>>
          THEN [discovery EXCEPT !.pc = "guilds",
                                 !.guilds = Take(guilds, discovery.max_servers),
                                 !.refused = {}, !.errors = {}]
          ELSE [discovery EXCEPT !.runs = @ + 1, !.refused = {}, !.errors = {}]
    /\ UNCHANGED <<server_map, record>>

\* _process_guild up to the loop over the announcement channels.
ProcessGuild(status, channel_list) ==
    /\ discovery.pc = "guilds"
    /\ LET guild_name == Head(discovery.guilds) IN
       discovery' =
          IF status # 200
          THEN [NextGuild(discovery) EXCEPT !.refused = @ \cup {guild_name}]
          ELSE [discovery EXCEPT
                   !.pc = "channels",
                   !.server_info = ServerInfo(guild_name, discovery.max_channels_per_server),
                   !.announcement_channels = Take(channel_list, discovery.max_channels_per_server)]
    /\ UNCHANGED <<server_map, record>>

\* One turn of the loop: _test_channel_access, then add_channel.
TestAndAdd(http_accessible) ==
    /\ discovery.pc = "channels"
    /\ discovery.announcement_channels # <<>>
    /\ LET channel_info == [ChannelInfo(Head(discovery.announcement_channels))
                               EXCEPT !.http_accessible = http_accessible]
       IN  discovery' = [discovery EXCEPT
                            !.server_info = add_channel(@, channel_info).info,
                            !.announcement_channels = Tail(@)]
    /\ UNCHANGED <<server_map, record>>

\* After the loop: update_stats, then the store; an exception leaves the
\* try block for the handler that logs it.  populated keeps, per guild, the
\* ServerInfo as the latest _process_guild that built one left it.
UpdateAndStore ==
    /\ discovery.pc = "channels"
    /\ discovery.announcement_channels = <<>>
    /\ LET guild_name == Head(discovery.guilds)
           updated == update_stats(discovery.server_info)
           d == [NextGuild(discovery) EXCEPT
                    !.populated = [g \in DOMAIN @ \cup {guild_name} |->
                                      IF g = guild_name THEN updated.info ELSE @[g]],
                    !.server_info = NoServerInfo]
       IN  IF updated.raised
           THEN /\ discovery' = [d EXCEPT !.errors = @ \cup {guild_name}]
                /\ UNCHANGED server_map
           ELSE /\ discovery' = d
                /\ server_map' = [g \in DOMAIN server_map \cup {guild_name} |->
                                     IF g = guild_name THEN updated.info ELSE server_map[g]]
    /\ UNCHANGED record

\* record.add_channel(channel_info)
AddChannel(channel_id, http_accessible, websocket_accessible) ==
    /\ record.info # NoServerInfo
    /\ record.calls < MaxCalls
    /\ LET channel_info == [channel_id |-> channel_id, http_accessible |-> http_accessible,
                            websocket_accessible |-> websocket_accessible]
           done == add_channel(record.info, channel_info)
       IN  record' = [info |-> done.info, call |-> "add_channel",
                      returned |-> done.returned, raised |-> FALSE,
                      before |-> record.info, calls |-> record.calls + 1]
    /\ UNCHANGED <<server_map, discovery>>

\* record.remove_channel(channel_id)
RemoveChannel(channel_id) ==
    /\ record.call = "add_channel"
    /\ LET done == remove_channel(record.info, channel_id)
       IN  record' = [record EXCEPT !.info = done.info, !.call = "remove_channel",
                                    !.returned = done.returned, !.raised = FALSE,
                                    !.before = record.info]
    /\ UNCHANGED <<server_map, discovery>>

\* record.update_stats()
UpdateStats ==
    /\ record.info # NoServerInfo
    /\ record.call # "update_stats"
    /\ LET done == update_stats(record.info)
       IN  record' = [record EXCEPT !.info = done.info, !.call = "update_stats",
                                    !.returned = FALSE, !.raised = done.raised,
                                    !.before = record.info]
    /\ UNCHANGED <<server_map, discovery>>

DiscoveryNext ==
    \/ \E status \in {200, 500}, guilds \in GuildLists : DiscoverServers(status, guilds)
    \/ \E status \in {200, 403}, channel_list \in ChannelLists :
          ProcessGuild(status, channel_list)
    \/ \E http_accessible \in BOOLEAN : TestAndAdd(http_accessible)
    \/ UpdateAndStore
    \/ \E channel_id \in {"c1", "c2", "c3"}, h \in BOOLEAN, w \in BOOLEAN :
          AddChannel(channel_id, h, w)
    \/ \E channel_id \in {"c1", "c2"} : RemoveChannel(channel_id)
    \/ UpdateStats

(***************************************************************************)
(* Specifications                                                          *)
(***************************************************************************)
vars == <<sinkVars, limiterVars, ingressVars, batchVars, sourceVars, gatewayVars,
         lifecycleVars, reconcileVars, feedbackVars, waitVars, evictVars, pullVars, backfillVars, configVars, countersVars, persistVars, discoveryVars>>

\* The sink client before initialization, in a forum chat.
SinkIdle == SinkInit /\ use_topics /\ chat = "forum"

Init == SinkInit /\ LimiterIdle /\ IngressIdle /\ BatchIdle /\ SourceIdle /\ GatewayIdle
    /\ LifecycleIdle /\ ReconcileIdle
    /\ FeedbackIdle
    /\ WaitIdle
    /\ EvictIdle
    /\ PullIdle
    /\ BackfillIdle
    /\ ConfigIdle
    /\ CountersIdle
    /\ PersistIdle
    /\ DiscoveryIdle
Next == SinkNext /\ UNCHANGED <<discoveryVars, persistVars, countersVars, configVars, backfillVars, pullVars, evictVars, waitVars, feedbackVars, reconcileVars, lifecycleVars, limiterVars, ingressVars, batchVars, sourceVars, gatewayVars>>
Spec == Init /\ [][Next]_vars

InitLimiter == SinkIdle /\ LimiterInit /\ IngressIdle /\ BatchIdle /\ SourceIdle /\ GatewayIdle
    /\ LifecycleIdle /\ ReconcileIdle
    /\ FeedbackIdle
    /\ WaitIdle
    /\ EvictIdle
    /\ PullIdle
    /\ BackfillIdle
    /\ ConfigIdle
    /\ CountersIdle
    /\ PersistIdle
    /\ DiscoveryIdle
NextLimiter == LimiterNext /\ UNCHANGED <<discoveryVars, persistVars, countersVars, configVars, backfillVars, pullVars, evictVars, waitVars, feedbackVars, reconcileVars, lifecycleVars, sinkVars, ingressVars, batchVars, sourceVars, gatewayVars>>
SpecLimiter == InitLimiter /\ [][NextLimiter]_vars

InitIngress == SinkReady /\ LimiterIdle /\ IngressInit /\ BatchIdle /\ SourceIdle /\ GatewayIdle
    /\ LifecycleIdle /\ ReconcileIdle
    /\ FeedbackIdle
    /\ WaitIdle
    /\ EvictIdle
    /\ PullIdle
    /\ BackfillIdle
    /\ ConfigIdle
    /\ CountersIdle
    /\ PersistIdle
    /\ DiscoveryIdle
NextIngress == IngressNext /\ UNCHANGED <<discoveryVars, persistVars, countersVars, configVars, backfillVars, pullVars, evictVars, waitVars, feedbackVars, reconcileVars, lifecycleVars, limiterVars, batchVars, sourceVars, gatewayVars>>
SpecIngress == InitIngress /\ [][NextIngress]_vars

InitBatch == SinkReady /\ use_topics /\ LimiterIdle /\ IngressIdle /\ BatchIdle /\ SourceIdle /\ GatewayIdle
    /\ LifecycleIdle /\ ReconcileIdle
    /\ FeedbackIdle
    /\ WaitIdle
    /\ EvictIdle
    /\ PullIdle
    /\ BackfillIdle
    /\ ConfigIdle
    /\ CountersIdle
    /\ PersistIdle
    /\ DiscoveryIdle
NextBatch == BatchNext /\ UNCHANGED <<discoveryVars, persistVars, countersVars, configVars, backfillVars, pullVars, evictVars, waitVars, feedbackVars, reconcileVars, lifecycleVars, sinkVars, limiterVars, sourceVars, gatewayVars, message_queue, producers, gateway,
                                     arrivals, taken, outcomes>>
SpecBatch == InitBatch /\ [][NextBatch]_vars

NextFlush == FlushNext /\ UNCHANGED <<discoveryVars, persistVars, countersVars, configVars, backfillVars, pullVars, evictVars, waitVars, feedbackVars, reconcileVars, lifecycleVars, sinkVars, limiterVars, sourceVars, gatewayVars, message_queue, producers, gateway,
                                     arrivals, taken, outcomes>>
SpecFlush == InitBatch /\ [][NextFlush]_vars

InitSource == SinkIdle /\ LimiterIdle /\ IngressIdle /\ BatchIdle /\ SourceInit /\ GatewayIdle
    /\ LifecycleIdle /\ ReconcileIdle
    /\ FeedbackIdle
    /\ WaitIdle
    /\ EvictIdle
    /\ PullIdle
    /\ BackfillIdle
    /\ ConfigIdle
    /\ CountersIdle
    /\ PersistIdle
    /\ DiscoveryIdle
NextSource == SourceNext /\ UNCHANGED <<discoveryVars, persistVars, countersVars, configVars, backfillVars, pullVars, evictVars, waitVars, feedbackVars, reconcileVars, lifecycleVars, sinkVars, limiterVars, ingressVars, batchVars, gatewayVars>>
SpecSource == InitSource /\ [][NextSource]_vars

InitGateway == SinkIdle /\ LimiterIdle /\ IngressIdle /\ BatchIdle /\ SourceIdle /\ GatewayIdle
    /\ LifecycleIdle /\ ReconcileIdle
    /\ FeedbackIdle
    /\ WaitIdle
    /\ EvictIdle
    /\ PullIdle
    /\ BackfillIdle
    /\ ConfigIdle
    /\ CountersIdle
    /\ PersistIdle
    /\ DiscoveryIdle
NextGateway == GatewayNext /\ UNCHANGED <<discoveryVars, persistVars, countersVars, configVars, backfillVars, pullVars, evictVars, waitVars, feedbackVars, reconcileVars, lifecycleVars, sinkVars, limiterVars, ingressVars, batchVars, sourceVars>>
SpecGateway == InitGateway /\ [][NextGateway]_vars

InitLifecycle == SinkIdle /\ LimiterIdle /\ IngressIdle /\ BatchIdle /\ SourceIdle /\ GatewayIdle
    /\ LifecycleIdle /\ ReconcileIdle
    /\ FeedbackIdle
    /\ WaitIdle
    /\ EvictIdle
    /\ PullIdle
    /\ BackfillIdle
    /\ ConfigIdle
    /\ CountersIdle
    /\ PersistIdle
    /\ DiscoveryIdle
NextLifecycle == LifecycleNext /\ UNCHANGED <<discoveryVars, persistVars, countersVars, configVars, backfillVars, pullVars, evictVars, waitVars, feedbackVars, reconcileVars, sinkVars, limiterVars, ingressVars, batchVars,
                                              sourceVars, gatewayVars>>
SpecLifecycle == InitLifecycle /\ [][NextLifecycle]_vars

InitReconcile == ReconcileInit /\ LimiterIdle /\ IngressIdle /\ BatchIdle /\ SourceIdle
    /\ GatewayIdle /\ LifecycleIdle
    /\ FeedbackIdle
    /\ WaitIdle
    /\ EvictIdle
    /\ PullIdle
    /\ BackfillIdle
    /\ ConfigIdle
    /\ CountersIdle
    /\ PersistIdle
    /\ DiscoveryIdle
NextReconcile == ReconcileNext /\ UNCHANGED <<discoveryVars, persistVars, countersVars, configVars, backfillVars, pullVars, evictVars, waitVars, feedbackVars, limiterVars, ingressVars, batchVars, sourceVars,
                                              gatewayVars, lifecycleVars>>
SpecReconcile == InitReconcile /\ [][NextReconcile]_vars

InitRace == RaceInit /\ LimiterIdle /\ IngressIdle /\ BatchIdle /\ SourceIdle
    /\ GatewayIdle /\ LifecycleIdle /\ FeedbackIdle /\ WaitIdle
    /\ EvictIdle
    /\ PullIdle
    /\ BackfillIdle
    /\ ConfigIdle
    /\ CountersIdle
    /\ PersistIdle
    /\ DiscoveryIdle
NextRace == RaceNext /\ UNCHANGED <<discoveryVars, persistVars, countersVars, configVars, backfillVars, pullVars, evictVars, waitVars, feedbackVars, limiterVars, ingressVars, batchVars, sourceVars,
                                    gatewayVars, lifecycleVars>>
SpecRace == InitRace /\ [][NextRace]_vars

InitFeedback == SinkIdle /\ FeedbackInit /\ IngressIdle /\ BatchIdle /\ SourceIdle /\ GatewayIdle
    /\ LifecycleIdle /\ ReconcileIdle
    /\ WaitIdle
    /\ EvictIdle
    /\ PullIdle
    /\ BackfillIdle
    /\ ConfigIdle
    /\ CountersIdle
    /\ PersistIdle
    /\ DiscoveryIdle
NextFeedback == FeedbackNext /\ UNCHANGED <<discoveryVars, persistVars, countersVars, configVars, backfillVars, pullVars, evictVars, waitVars, sinkVars, ingressVars, batchVars, sourceVars,
                                            gatewayVars, lifecycleVars, reconcileVars>>
SpecFeedback == InitFeedback /\ [][NextFeedback]_vars

InitWait == SinkIdle /\ WaitInit /\ IngressIdle /\ BatchIdle /\ SourceIdle /\ GatewayIdle
    /\ LifecycleIdle /\ ReconcileIdle /\ FeedbackIdle
    /\ EvictIdle
    /\ PullIdle
    /\ BackfillIdle
    /\ ConfigIdle
    /\ CountersIdle
    /\ PersistIdle
    /\ DiscoveryIdle
WaitStep(A) == A /\ UNCHANGED <<discoveryVars, persistVars, countersVars, configVars, backfillVars, pullVars, evictVars, sinkVars, ingressVars, batchVars, sourceVars, gatewayVars,
                                 lifecycleVars, reconcileVars, feedbackVars>>
NextWait == WaitStep(WaitNext)
SpecWait == InitWait /\ [][NextWait]_vars
\* The event loop runs every ready task, and time passes.
WaitFairness ==
    /\ WF_vars(WaitStep(Tick))
    /\ \A w \in Waiters : WF_vars(WaitStep(WaitAcquire(w))) /\ WF_vars(WaitStep(WakeUp(w)))
SpecWaitFair == SpecWait /\ WaitFairness

InitEvict == SinkIdle /\ EvictInit /\ IngressIdle /\ BatchIdle /\ SourceIdle /\ GatewayIdle
    /\ LifecycleIdle /\ ReconcileIdle /\ FeedbackIdle /\ WaitIdle
    /\ PullIdle
    /\ BackfillIdle
    /\ ConfigIdle
    /\ CountersIdle
    /\ PersistIdle
    /\ DiscoveryIdle
NextEvict == EvictNext /\ UNCHANGED <<discoveryVars, persistVars, countersVars, configVars, backfillVars, pullVars, sinkVars, ingressVars, batchVars, sourceVars, gatewayVars,
                                      lifecycleVars, reconcileVars, feedbackVars, waitVars>>
SpecEvict == InitEvict /\ [][NextEvict]_vars

InitPull == SinkIdle /\ LimiterIdle /\ IngressIdle /\ BatchIdle /\ PullInit /\ GatewayIdle
    /\ LifecycleIdle /\ ReconcileIdle /\ FeedbackIdle /\ WaitIdle /\ EvictIdle
    /\ BackfillIdle
    /\ ConfigIdle
    /\ CountersIdle
    /\ PersistIdle
    /\ DiscoveryIdle
NextPull == PullNext /\ UNCHANGED <<discoveryVars, persistVars, countersVars, configVars, backfillVars, sinkVars, ingressVars, batchVars, gatewayVars,
                                    lifecycleVars, reconcileVars, feedbackVars, waitVars,
                                    evictVars>>
SpecPull == InitPull /\ [][NextPull]_vars

InitBackfill == SinkIdle /\ LimiterIdle /\ IngressIdle /\ BatchIdle /\ SourceIdle /\ GatewayIdle
    /\ LifecycleIdle /\ ReconcileIdle /\ FeedbackIdle /\ WaitIdle /\ EvictIdle /\ PullIdle
    /\ BackfillInit
    /\ ConfigIdle
    /\ CountersIdle
    /\ PersistIdle
    /\ DiscoveryIdle
NextBackfill == BackfillNext /\ UNCHANGED <<discoveryVars, persistVars, countersVars, configVars, sinkVars, limiterVars, batchVars, sourceVars,
                                            gatewayVars, lifecycleVars, reconcileVars,
                                            feedbackVars, waitVars, evictVars, pullVars,
                                            message_queue, producers, gateway, arrivals,
                                            taken, outcomes>>
SpecBackfill == InitBackfill /\ [][NextBackfill]_vars

InitConfig == SinkIdle /\ LimiterIdle /\ IngressIdle /\ BatchIdle /\ SourceIdle /\ GatewayIdle
    /\ LifecycleIdle /\ ReconcileIdle /\ FeedbackIdle /\ WaitIdle /\ EvictIdle /\ PullIdle
    /\ BackfillIdle /\ ConfigInit
    /\ CountersIdle
    /\ PersistIdle
    /\ DiscoveryIdle
NextConfig == ConfigNext /\ UNCHANGED <<discoveryVars, persistVars, countersVars, sinkVars, limiterVars, ingressVars, batchVars,
                                        sourceVars, gatewayVars, lifecycleVars,
                                        reconcileVars, feedbackVars, waitVars, evictVars,
                                        pullVars, backfillVars>>
SpecConfig == InitConfig /\ [][NextConfig]_vars

InitCounters == InitBatch
NextCounters == CountersNext /\ UNCHANGED <<discoveryVars, persistVars, use_topics, sink_state, server_topics,
                                            message_mappings, async_lock, save_tasks, tasks,
                                            chat, alive, sent, blob, store_up, calls, started,
                                            restarts, topics_created, now, last_acquire,
                                            granted, acquires, feedbacks, advances,
                                            message_queue, producers, gateway, arrivals,
                                            taken, outcomes, sourceVars, gatewayVars,
                                            lifecycleVars, reconcileVars, feedbackVars,
                                            waitVars, evictVars, pullVars, backfillVars,
                                            configVars>>
SpecCounters == InitCounters /\ [][NextCounters]_vars

InitPersist == SinkIdle /\ LimiterIdle /\ IngressIdle /\ BatchIdle /\ SourceIdle /\ GatewayIdle
    /\ LifecycleIdle /\ ReconcileIdle /\ FeedbackIdle /\ WaitIdle /\ EvictIdle /\ PullIdle
    /\ BackfillIdle /\ ConfigIdle /\ CountersIdle /\ PersistInit
    /\ DiscoveryIdle
NextPersist == PersistNext /\ UNCHANGED <<discoveryVars, sinkVars, limiterVars, ingressVars, batchVars,
                                          sourceVars, gatewayVars, lifecycleVars,
                                          reconcileVars, feedbackVars, waitVars, evictVars,
                                          pullVars, backfillVars, configVars, countersVars>>
SpecPersist == InitPersist /\ [][NextPersist]_vars

InitDiscovery == SinkIdle /\ LimiterIdle /\ IngressIdle /\ BatchIdle /\ SourceIdle /\ GatewayIdle
    /\ LifecycleIdle /\ ReconcileIdle /\ FeedbackIdle /\ WaitIdle /\ EvictIdle /\ PullIdle
    /\ BackfillIdle /\ ConfigIdle /\ CountersIdle /\ PersistIdle /\ DiscoveryInit
NextDiscovery == DiscoveryNext /\ UNCHANGED <<sinkVars, limiterVars, ingressVars, batchVars,
                                              sourceVars, gatewayVars, lifecycleVars,
                                              reconcileVars, feedbackVars, waitVars, evictVars,
                                              pullVars, backfillVars, configVars, countersVars,
                                              persistVars>>
SpecDiscovery == InitDiscovery /\ [][NextDiscovery]_vars

(***************************************************************************)
(* Claims about the sink client                                            *)
(***************************************************************************)
InFlight(t) == tasks[t].pc \notin {"idle", "done"}
InCriticalSection(t) == tasks[t].pc \in {"probe", "drop", "create"}
Returns(t) == tasks[t].pc # "done" /\ tasks'[t].pc = "done"

\* C1: once a timestamp's key is in the message mapping, no later
\* send_message delivers a message with that timestamp to the sink again.
C1_AtMostOnceDelivery ==
    [][\A i \in (Len(sent) + 1)..Len(sent') :
          message_mappings[sent'[i].ts] = None]_vars

\* C2 (as claimed): of the sends for one guild that are in flight together,
\* with no probe failure for that guild, at most one calls createForumTopic.
C2_ExactlyOneCreateCall ==
    \A t1, t2 \in Tasks :
        (/\ t1 # t2 /\ InFlight(t1) /\ InFlight(t2)
         /\ tasks[t1].g = tasks[t2].g
         /\ ~calls.probe_failed[tasks[t1].g])
        => ~(tasks[t1].made_create /\ tasks[t2].made_create)

\* C2 (amended): while no existence probe has failed for a guild, at most one
\* createForumTopic call for it has succeeded, and all sends for it that hold
\* a topic id hold the same one, which is the cached one.
C2_OneTopicPerGuild ==
    \A g \in Guilds :
        ~calls.probe_failed[g] =>
            /\ calls.created[g] <= 1
            /\ \A t \in Tasks :
                  (tasks[t].g = g /\ tasks[t].pc \in {"send", "done"}
                                  /\ tasks[t].topic_id # None)
                  => tasks[t].topic_id = server_topics[g]

\* Two sends for one guild overlap; the first created the topic, the second
\* found it in the cache, and both are about to send into it.
C2_Witness ==
    \E t1, t2 \in Tasks :
        /\ t1 # t2 /\ tasks[t1].g = tasks[t2].g
        /\ tasks[t1].pc = "send" /\ tasks[t2].pc = "send"
        /\ tasks[t1].made_create /\ ~tasks[t2].made_create
        /\ tasks[t1].topic_id # None /\ tasks[t2].topic_id = tasks[t1].topic_id
        /\ calls.create[tasks[t1].g] = 1

\* C3: at most one caller is inside the critical section of
\* _get_or_create_topic, and it is the holder of the lock; so at most one
\* createForumTopic call is pending.
C3_MutualExclusion ==
    /\ \A t \in Tasks : InCriticalSection(t) => async_lock = t
    /\ Cardinality({t \in Tasks : InCriticalSection(t)}) <= 1
    /\ Cardinality({t \in Tasks : tasks[t].pc = "create"}) <= 1

\* One caller is about to call createForumTopic while another send for the
\* same guild waits for the lock.
C3_Witness ==
    \E t1, t2 \in Tasks :
        /\ t1 # t2 /\ tasks[t1].g = tasks[t2].g
        /\ tasks[t1].pc = "create" /\ tasks[t2].pc = "topic" /\ use_topics

\* C7: a send that returns true has just recorded the id sendMessage returned
\* under the message's timestamp, and with the store working the persisted
\* blob holds the whole mapping (this entry and every earlier one) when the
\* send returns; a send that returns false leaves the mapping unchanged.
C7_MappingAfterSend ==
    [][\A t \in Tasks :
          Returns(t) =>
            IF tasks'[t].result
            THEN /\ Len(sent') = Len(sent) + 1
                 /\ tasks'[t].mid = sent'[Len(sent')].mid
                 /\ message_mappings'[tasks[t].ts] = sent'[Len(sent')].mid
                 /\ store_up => (blob'.present /\ blob'.messages = message_mappings')
            ELSE message_mappings' = message_mappings /\ sent' = sent]_vars

\* Two sends of different timestamps have returned true and both entries are
\* in the mapping and in the persisted blob.
C7_Witness ==
    \E t1, t2 \in Tasks :
        /\ tasks[t1].pc = "done" /\ tasks[t1].result
        /\ tasks[t2].pc = "done" /\ tasks[t2].result
        /\ tasks[t1].ts # tasks[t2].ts
        /\ message_mappings[tasks[t1].ts] = tasks[t1].mid
        /\ message_mappings[tasks[t2].ts] = tasks[t2].mid
        /\ blob.present /\ blob.messages = message_mappings

\* C8 (as claimed): a send whose existence probe failed goes on with a newly
\* created topic.
C8_AlwaysRecreated ==
    \A t \in Tasks :
        (tasks[t].stale # None /\ tasks[t].pc \in {"send", "done"})
        => (tasks[t].topic_id # None /\ tasks[t].topic_id # tasks[t].stale)

\* C8 (amended): a send whose existence probe failed removes the stale entry
\* and calls createForumTopic; if the call succeeds the new id is cached, a
\* persist is scheduled and the message is sent with the new id as thread id;
\* if it fails the message is sent without one.  The stale id is never used.
C8_StaleState ==
    \A t \in Tasks :
        tasks[t].stale # None =>
            /\ tasks[t].pc = "create" => server_topics[tasks[t].g] = None
            /\ (tasks[t].pc \in {"send", "done"} /\ tasks[t].made_create) =>
                  /\ tasks[t].topic_id # tasks[t].stale
                  /\ tasks[t].create_failed <=> tasks[t].topic_id = None
            /\ (tasks[t].pc = "done" /\ tasks[t].result) =>
                  /\ sent[tasks[t].mid].thread = tasks[t].topic_id
                  /\ sent[tasks[t].mid].thread # tasks[t].stale

C8_CreateStep ==
    \A t \in Tasks :
        (/\ tasks[t].stale # None /\ tasks[t].pc = "create"
         /\ tasks'[t].pc = "send" /\ ~tasks'[t].create_failed)
        => /\ tasks'[t].topic_id \notin alive
           /\ server_topics'[tasks[t].g] = tasks'[t].topic_id
           /\ save_tasks' = save_tasks + 1

C8_StaleTopicReplaced == [](C8_StaleState) /\ [][C8_CreateStep]_vars

\* A send found its cached topic missing, created a new one and delivered the
\* message into it.
C8_Witness ==
    \E t \in Tasks :
        /\ tasks[t].stale # None /\ tasks[t].pc = "done" /\ tasks[t].result
        /\ tasks[t].topic_id > tasks[t].stale
        /\ sent[tasks[t].mid].thread = tasks[t].topic_id
        /\ server_topics[tasks[t].g] = tasks[t].topic_id

\* C9: after a failed createForumTopic the send goes on without a topic id: no
\* entry is cached by the failed call, sendMessage is still called, without a
\* thread id, and the send returns what sendMessage's outcome says.
C9_FallbackState ==
    \A t \in Tasks :
        tasks[t].create_failed =>
            /\ tasks[t].pc \in {"send", "done"}
            /\ tasks[t].topic_id = None
            /\ tasks[t].pc = "done" =>
                  /\ tasks[t].called_send
                  /\ tasks[t].result <=> tasks[t].mid # None
                  /\ tasks[t].result =>
                        /\ sent[tasks[t].mid].thread = None
                        /\ sent[tasks[t].mid].ts = tasks[t].ts

C9_FailedCreateStep ==
    \A t \in Tasks :
        (~tasks[t].create_failed /\ tasks'[t].create_failed)
        => server_topics' = server_topics

C9_TopicLessFallback == [](C9_FallbackState) /\ [][C9_FailedCreateStep]_vars

\* createForumTopic failed, and the message was delivered without a thread id.
C9_Witness ==
    \E t \in Tasks :
        /\ tasks[t].create_failed /\ tasks[t].pc = "done" /\ tasks[t].result
        /\ sent[tasks[t].mid].thread = None
        /\ server_topics[tasks[t].g] = None
        /\ use_topics

\* C10: once initialization has found a plain (super)group, no
\* createForumTopic / getForumTopic call is made and no sendMessage carries a
\* thread id.
C10_PlainGroupDisablesTopics ==
    (sink_state = "ready" /\ chat = "group")
    => (calls.topic_api = 0 /\ ~calls.threads_used)

(***************************************************************************)
(* Claims about the rate limiter                                           *)
(***************************************************************************)
\* The calls for a key that returned True in the key's current minute window.
MinuteGrants(k) ==
    {i \in DOMAIN granted :
        /\ granted[i].key = k
        /\ MainKey(k) \in DOMAIN limiter.buckets
        /\ granted[i].at >= limiter.buckets[MainKey(k)].reset_time
                            - window_seconds * TicksPerSecond}

\* The calls for a key that returned True in the one-second window w.
SecondGrants(k, w) ==
    {i \in DOMAIN granted : granted[i].key = k /\ granted[i].at \div TicksPerSecond = w}

\* C4: in a key's minute window, and in the current one-second window,
\* acquire has returned True at most cap * adaptive_multiplier times.
C4_RateCap ==
    \A k \in Keys :
        /\ limiter.requests_per_minute # None =>
              Cardinality(MinuteGrants(k)) * 100
                  <= limiter.requests_per_minute * limiter.adaptive_multiplier
        /\ limiter.requests_per_second # None =>
              Cardinality(SecondGrants(k, now \div TicksPerSecond)) * 1000
                  <= limiter.requests_per_second * limiter.adaptive_multiplier

(***************************************************************************)
(* Claims about the ingress queue and the gateway dispatch                 *)
(***************************************************************************)
\* C5: every MESSAGE_CREATE dispatch with non-empty content that a gateway
\* stream has received has been passed on to queue_message.
C5_GatewayHandoff == gateway.queued = gateway.received

Offers(p) == producers'[p].calls = producers[p].calls + 1

\* C6: the queue never holds more than maxsize messages, and a queue_message
\* call made while it holds maxsize returns at once, leaves the queue as it
\* is, adds 1 to errors_last_hour and sets last_error to "queue full".
C6_OverflowStep ==
    \A p \in Producers :
        (Offers(p) /\ full) =>
            /\ producers'[p].pc = "idle"
            /\ message_queue' = message_queue
            /\ stats'.errors_last_hour = stats.errors_last_hour + 1
            /\ stats'.last_error = "queue full"

C6_QueueOverflow == [](Len(message_queue) <= maxsize) /\ [][C6_OverflowStep]_vars

(***************************************************************************)
(* Claims about the batch path                                             *)
(***************************************************************************)
\* The send_message calls of one send_messages_batch call, in order.
Tried(c) == SelectSeq(attempts, LAMBDA a : a.call = c)
Position(input, m) == CHOOSE k \in DOMAIN input : input[k] = m

\* C11: within one batch send the messages of each guild are sent in
\* ascending timestamp order, equal timestamps in input order; when the call
\* has returned every input message was attempted exactly once, whatever the
\* result of the sends before it, and the returned count is the number of
\* sends that succeeded.
C11_BatchOrdering ==
    \A c \in DOMAIN batches :
        LET tried == Tried(c)
            input == batches[c].input
        IN  /\ \A i, j \in DOMAIN tried :
                  (i < j /\ tried[i].message.g = tried[j].message.g) =>
                      \/ tried[i].message.ts < tried[j].message.ts
                      \/ /\ tried[i].message.ts = tried[j].message.ts
                         /\ Position(input, tried[i].message) < Position(input, tried[j].message)
            /\ batches[c].returned # Running =>
                  /\ Len(tried) = Len(input)
                  /\ \A k \in DOMAIN input :
                        Cardinality({i \in DOMAIN tried : tried[i].message = input[k]}) = 1
                  /\ batches[c].returned =
                        Cardinality({i \in DOMAIN tried : tried[i].ok})

\* A returned batch send of three messages of one guild, given out of order
\* and with a tie, whose first send failed and whose other two succeeded.
C11_Witness ==
    \E c \in DOMAIN batches :
        LET tried == Tried(c)
            input == batches[c].input
        IN  /\ batches[c].returned = 2
            /\ Len(input) = 3
            /\ \A k \in DOMAIN input : input[k].g = input[1].g
            /\ input[1].ts > input[2].ts
            /\ input[2].ts = input[3].ts
            /\ ~tried[1].ok

\* C12: messages of one channel pushed onto the batch path in ascending
\* timestamp order reach the sink in ascending timestamp order, whatever the
\* interleaving of the size-triggered flushes and the batch loop's flush.
C12_AscendingAcrossFlushes ==
    \A i, j \in DOMAIN attempts :
        (i < j /\ attempts[i].ok /\ attempts[j].ok) =>
            attempts[i].message.ts < attempts[j].message.ts

(***************************************************************************)
(* Claims about the drain loop                                             *)
(***************************************************************************)
Draining == Len(taken) > Len(outcomes)
\* Whether the send of the i-th message taken has returned True.
Delivered(i) ==
    IF i <= Len(outcomes) THEN outcomes[i]
    ELSE tasks[DrainTask].pc = "done" /\ tasks[DrainTask].result
Count(results, value) == Cardinality({i \in DOMAIN results : results[i] = value})

\* C13: the drain loop takes the messages in the order put() accepted them,
\* starts the send of a message only when the send of the one before has
\* returned, and so the sink receives the delivered ones in that order.
C13_StreamingOrder ==
    /\ \E n \in {0, maxsize - 1} : Backlog(n) \o arrivals = taken \o message_queue
    /\ Len(taken) - Len(outcomes) \in {0, 1}
    /\ Draining <=> tasks[DrainTask].pc # "idle"
    /\ LET delivered == {i \in DOMAIN taken : Delivered(i)}
       IN  /\ Len(sent) = Cardinality(delivered)
           /\ \A i \in delivered :
                 sent[Cardinality({j \in delivered : j <= i})].ts = taken[i].ts

\* Two messages accepted with the later timestamp first, both taken and
\* both delivered.
C13_Witness ==
    /\ Len(arrivals) = 2
    /\ arrivals[1].ts > arrivals[2].ts
    /\ taken = arrivals
    /\ outcomes = <<TRUE, TRUE>>
    /\ Len(sent) = 2

\* C14: every message taken by the drain loop causes one send_message call
\* and, once that has returned, one update of the statistics: both processed
\* counters plus one on success, the error counter plus one with last_error
\* and last_error_time set on failure; the loop is then ready for the next
\* message whatever the result was.
C14_DrainAccounting ==
    /\ started = Len(taken)
    /\ Len(outcomes) = IF tasks[DrainTask].pc = "idle" THEN Len(taken) ELSE Len(taken) - 1
    /\ stats.messages_processed_today = Count(outcomes, TRUE)
    /\ stats.messages_processed_total = Count(outcomes, TRUE)
    /\ stats.errors_last_hour = Count(outcomes, FALSE)
    /\ Count(outcomes, FALSE) > 0 =>
          stats.last_error # NoError /\ stats.last_error_time # NoErrorTime

\* A failed message followed by a delivered one.
C14_Witness ==
    /\ outcomes = <<FALSE, TRUE>>
    /\ stats.errors_last_hour = 1
    /\ stats.messages_processed_total = 1

(***************************************************************************)
(* Claims about the source client                                          *)
(***************************************************************************)
\* Every window of k * N consecutive entries of a call history names each
\* session exactly k times.
Balanced(history) ==
    \A a \in DOMAIN history, k \in 1..MaxPulls :
        LET b == a + k * Len(sessions) - 1
        IN  b <= Len(history) =>
                \A i \in DOMAIN sessions :
                    Cardinality({j \in a..b : history[j] = sessions[i]}) = k

\* The calls that got as far as the request.
Requests == SelectSeq(pulls, LAMBDA session : session # None)

\* C15 as stated: any k * N consecutive get_recent_messages calls use each
\* of the N valid sessions exactly k times.
C15_EveryCallRotates == initialized = "ok" => Balanced(pulls)

\* C15: the get_recent_messages calls that make a request take the valid
\* sessions in cyclic order starting with the first, so any k * N
\* consecutive ones of them use each session exactly k times; a call that
\* returns before the request (unknown server, unknown channel, channel not
\* readable over HTTP) uses no session and leaves the rotation where it was.
C15_RequestsRotate ==
    initialized = "ok" =>
        /\ Balanced(Requests)
        /\ \A j \in DOMAIN Requests :
              Requests[j] = sessions[((j - 1) % Len(sessions)) + 1]
        /\ current_token_index = Len(Requests) % Len(sessions)

\* Three valid sessions and six calls that made a request, with a call that
\* returned early among them.
C15_Witness ==
    /\ Len(sessions) = 3
    /\ Len(Requests) = 6
    /\ \E j \in 2..(Len(pulls) - 1) : pulls[j] = None

\* Whether a token passes every validation step.
Passes(token) ==
    /\ ~token.raises
    /\ token.me_status = 200
    /\ (token.flags \div 262144) % 2 = 1
    /\ token.guilds_status = 200
    /\ token.guilds > 0
Survivors == SelectSeq([i \in DOMAIN discord_tokens |-> i],
                       LAMBDA i : Passes(discord_tokens[i]))

\* C16: initialize() keeps exactly the sessions of the tokens that pass
\* every validation step, in configuration order, closes the session of
\* every other token, goes on to the next token after a failure, and
\* returns False exactly when no token survives.
C16_ValidTokensKept ==
    /\ sessions = SelectSeq(Survivors, LAMBDA i : i <= validated)
    /\ closed = {i \in 1..validated : ~Passes(discord_tokens[i])}
    /\ initialized # "pending" =>
          /\ validated = Len(discord_tokens)
          /\ initialized = "failed" <=> Survivors = <<>>

\* A token that fails followed by one that is kept, then one that lacks only
\* the flag bit, with initialization finished.
C16_Witness ==
    /\ initialized = "ok"
    /\ Len(discord_tokens) = 3
    /\ 1 \in closed
    /\ sessions = <<2>>
    /\ discord_tokens[3].flags = 131072

(***************************************************************************)
(* Claims about the gateway connection loop                                *)
(***************************************************************************)
\* What a loop may do between two connection attempts: after a refused
\* connection only the wait; after a session the heartbeat cancelled if
\* there was one, the connection closed and removed, then the wait.
ReconnectSteps ==
    { <<"wait">>,
      <<"close", "remove", "wait">>,
      <<"cancel_heartbeat", "close", "remove", "wait">> }

\* C17: between two consecutive connection attempts of one token the loop
\* cancels the heartbeat, closes and removes the connection and waits
\* websocket_reconnect_delay seconds, in this order, whatever ended the
\* session.
C17_ReconnectProtocol ==
    \A t \in GatewayTokens :
        \A i, j \in DOMAIN gateway_log[t] :
            ( /\ i < j
              /\ gateway_log[t][i] = "connect"
              /\ gateway_log[t][j] = "connect"
              /\ \A k \in (i + 1)..(j - 1) : gateway_log[t][k] # "connect" )
            => SubSeq(gateway_log[t], i + 1, j - 1) \in ReconnectSteps

(***************************************************************************)
(* Claims about the orchestrator lifecycle                                 *)
(***************************************************************************)
Occurs(event) == \E i \in DOMAIN lifecycle_log : lifecycle_log[i] = event
Before(first, second) ==
    \A j \in DOMAIN lifecycle_log :
        lifecycle_log[j] = second =>
            \E i \in 1..(j - 1) : lifecycle_log[i] = first

\* C18: a stop() that found the orchestrator running cancels the tasks,
\* gathers them and only then cleans up both sub-services; once it is over
\* it has returned, every background task has ended, the poller is stopped
\* and the sink blob has been persisted one final time.
C18_StopSequence ==
    /\ Before("cancel", "gathered")
    /\ Before("gathered", "source_cleanup")
    /\ \A s \in Stoppers :
          stops[s] \in {"returned", "raised"} =>
              /\ stops[s] = "returned"
              /\ ~processor_running
              /\ \A t \in BackgroundTasks : processor_tasks[t] = "ended"
              /\ Occurs("source_cleanup")
              /\ Occurs("stop_poller")
              /\ Occurs("final_save")

\* C19: when the initialization of the source client or of the sink client
\* fails, initialize() reports failure and the orchestrator is never started:
\* running stays false, no background task exists, and start() is not even
\* scheduled.
C19_FailedInitNeverStarts ==
    processor_initialized = "failed" =>
        /\ ~processor_running
        /\ \A t \in BackgroundTasks : processor_tasks[t] = "unborn"
        /\ starting = "none"
        /\ lifespan \in {"initialize", "finally"}
        /\ lifecycle_log = <<>>

\* A sub-service failed to initialize; lifespan has raised and its stop()
\* has found nothing to stop.
C19_Witness ==
    /\ processor_initialized = "failed"
    /\ lifespan = "finally"
    /\ stops["lifespan_finally"] = "returned_early"

(***************************************************************************)
(* Claims about reconciliation                                             *)
(***************************************************************************)
Probed(g) == \E i \in DOMAIN clean.probes : clean.probes[i].server_name = g
ProbeFailed(g) ==
    \E i \in DOMAIN clean.probes :
        clean.probes[i].server_name = g /\ clean.probes[i].failed
Cached(topics) == {g \in Guilds : topics[g] # None}

\* C20: a finished clean_invalid_topics() has probed every cached topic
\* once, removed exactly the entries whose probe failed and kept the others
\* as they were, saved once if and only if it removed something, and
\* returned the number of entries removed, which is the difference of the
\* map sizes before and after; a save that reached the store left the blob
\* equal to the map.
C20_Reconciliation ==
    clean.pc = "done" =>
        /\ \A g \in Guilds : Probed(g) <=> clean.before[g] # None
        /\ Len(clean.probes) = Cardinality(Cached(clean.before))
        /\ \A g \in Guilds :
              server_topics[g] = IF ProbeFailed(g) THEN None ELSE clean.before[g]
        /\ clean.returned = Cardinality({g \in Guilds : ProbeFailed(g)})
        /\ Cardinality(Cached(server_topics)) =
              Cardinality(Cached(clean.before)) - clean.returned
        /\ clean.saves = IF clean.returned > 0 THEN 1 ELSE 0
        /\ clean.stored => blob.present /\ blob.topics = server_topics

\* Two cached topics, one whose probe failed and one whose probe succeeded:
\* one entry removed, one kept, one save.
C20_Witness ==
    /\ clean.pc = "done"
    /\ Cardinality(Cached(clean.before)) = 2
    /\ clean.returned = 1
    /\ Cardinality(Cached(server_topics)) = 1
    /\ clean.saves = 1
    /\ clean.stored

(***************************************************************************)
(* Claims about the adaptive feedback                                      *)
(***************************************************************************)
\* What a record_error call has to do to the limiter it finds.
ErrorStep ==
    feedback_run'.last = "record_error" =>
        IF limiter.error_count + 1 > 3
        THEN /\ limiter'.adaptive_multiplier = Max(50, limiter.adaptive_multiplier - 10)
             /\ limiter'.error_count = 0
             /\ limiter'.success_count = 0
        ELSE /\ limiter'.adaptive_multiplier = limiter.adaptive_multiplier
             /\ limiter'.error_count = limiter.error_count + 1
             /\ limiter'.success_count = limiter.success_count

\* C21: record_error lowers the multiplier by 0.10, not below 0.5, and
\* resets both counters exactly on the call that takes the error count above
\* 3; N failing calls in a row on a fresh limiter leave the multiplier at
\* max(0.5, 1.0 - 0.1 * floor(N / 4)).
C21_AdaptiveDrop ==
    /\ [][ErrorStep]_vars
    /\ [](feedback_run.fresh =>
             /\ limiter.adaptive_multiplier = Max(50, 100 - 10 * (feedback_run.errors \div 4))
             /\ limiter.error_count = feedback_run.errors % 4)

\* Twenty-four errors in a row on a fresh limiter: the multiplier sits at the
\* floor, which a plain subtraction would have passed.
C21_Witness ==
    /\ feedback_run.fresh
    /\ feedback_run.errors = 24
    /\ limiter.adaptive_multiplier = 50

\* C22: adaptive_multiplier is 1.0 on a new limiter and within [0.5, 1.2]
\* in every reachable state.
C22_MultiplierRange ==
    /\ feedback_run.last = "none" => limiter.adaptive_multiplier = 100
    /\ limiter.adaptive_multiplier >= 50
    /\ limiter.adaptive_multiplier <= 120

\* The multiplier at its ceiling with a further hundred successes counted
\* and an acquire made there.
C22_Witness ==
    /\ limiter.adaptive_multiplier = 120
    /\ limiter.success_count = 100
    /\ feedback_run.last = "acquire"

(***************************************************************************)
(* Claims about waiting for the limiter                                    *)
(***************************************************************************)

\* How a finished wait ended: True after exactly one granted acquire, a
\* timeout only with no acquire granted and more than max_wait elapsed; the
\* safe variant turns the timeout into False and never raises.
WaitOutcome(w) ==
    LET c == waiters[w]
    IN  /\ c.won <= 1
        /\ c.outcome = "True" <=> c.won = 1
        /\ c.outcome \in {"TimeoutError", "False"} =>
              c.pc = "done" /\ c.ended_at - c.start_time > c.max_wait
        /\ c.outcome = "False" => c.safe
        /\ c.outcome = "TimeoutError" => ~c.safe
        /\ c.pc = "done" <=> c.outcome # "none"

\* Between two calls of acquire a waiter sleeps once.
RetryStep ==
    \A w \in Waiters :
        /\ waiters[w].pc = "sleep" => waiters'[w].pc \in {"sleep", "acquire"}
        /\ waiters[w].pc = "acquire" => waiters'[w].pc \in {"acquire", "sleep", "done"}

\* C23: wait_if_needed always terminates; it returns True only after one
\* acquire of its key has returned True, which consumed exactly one slot, and
\* otherwise raises the timeout once more than max_wait has elapsed, sleeping
\* between two acquires; wait_if_needed_safe returns False in exactly the
\* timeout cases and never raises.
C23_BoundedWait ==
    /\ [](\A w \in Waiters : WaitOutcome(w))
    /\ [](Len(granted) = Cardinality({w \in Waiters : waiters[w].won = 1}))
    /\ [][RetryStep]_vars
    /\ \A w \in Waiters : (waiters[w].pc # "idle") ~> (waiters[w].pc = "done")

\* One wait was granted after the limiter first refused it, and a safe wait
\* gave up after its max_wait.
C23_Witness ==
    /\ waiters["w1"].outcome = "True"
    /\ waiters["w1"].ended_at > waiters["w1"].start_time
    /\ waiters["w2"].outcome = "False"
    /\ waiters["w2"].ended_at > waiters["w2"].start_time + waiters["w2"].max_wait

(***************************************************************************)
(* Claims about reconciliation racing with sends                           *)
(***************************************************************************)

\* The step that ends _clean_invalid_topics leaves every entry whose topic
\* exists on the sink as it is.
CleanKeepsLive ==
    (clean.pc = "probing" /\ clean'.pc # "probing") =>
        \A g \in Guilds :
            (server_topics[g] # None /\ server_topics[g] \in alive) =>
                server_topics'[g] = server_topics[g]

Queued(n) == Cardinality({k \in DOMAIN batch_queue : batch_queue[k].n = n})
\* How often message n was in a list passed to send_messages_batch.
HandedOff(n) ==
    Cardinality({ck \in (DOMAIN batches) \X (1..MaxPushes) :
                    /\ ck[2] \in DOMAIN batches[ck[1]].input
                    /\ batches[ck[1]].input[ck[2]].n = n})

\* C25: every message given to add_to_batch is either still in the batch
\* queue or was passed to send_messages_batch in exactly one list, whatever
\* the interleaving of add_to_batch, the _process_batch tasks and the batch
\* loop's flush; a flush that finds the queue empty makes no batch send.
C25_ExactlyOnce ==
    /\ \A n \in 1..pushed : Queued(n) + HandedOff(n) = 1
    /\ \A c \in DOMAIN batches : batches[c].input # <<>>
    /\ \A k \in DOMAIN batch_queue : batch_queue[k].n \in 1..pushed

\* add_to_batch filled the queue to the batch size and made a task, the batch
\* loop took both messages first, and the task found the queue empty; a later
\* message went out in a list of its own.
C25_Witness ==
    /\ pushed = 3
    /\ batch_queue = <<>>
    /\ Len(batches) = 2
    /\ batches[1].caller = BatchLoop /\ Len(batches[1].input) = 2
    /\ batches[2].caller = BatchLoop /\ Len(batches[2].input) = 1
    /\ \A f \in ProcessBatchTasks : flushes[f].pc = "idle"

(***************************************************************************)
(* Claims about the eviction of limiter buckets                            *)
(***************************************************************************)
\* A step that evicts: neither an acquire nor the clock.
Evicts == acquires' = acquires /\ now' = now /\ <<limiter, evicted>>' # <<limiter, evicted>>

\* Whether the window of the bucket under key k is still running.
Current(k) ==
    IF k[2] = "main" THEN limiter.buckets[k].reset_time > now
    ELSE k[3] = now \div TicksPerSecond

\* An eviction of the buckets older than an hour keeps every bucket whose
\* window is still running.
KeepsCurrent ==
    (Evicts /\ evicted'.max_age = max_age_seconds) => \A k \in DOMAIN limiter.buckets : Current(k) => k \in DOMAIN limiter'.buckets

\* C26: an eviction, by clear_old_buckets(3600) or by the cleanup loop, never
\* removes a bucket whose window is still current, the per-second bucket of
\* the current second included, so that with evictions between the acquires
\* no more calls are granted for a key within one second than the cap of two.
C26_CleanupKeepsCap ==
    /\ [][KeepsCurrent]_vars
    /\ [](\A k \in Keys :
             (limiter.requests_per_second # None /\ evicted.ages \subseteq {max_age_seconds}) =>
                 Cardinality(SecondGrants(k, now \div TicksPerSecond)) * 10
                     <= limiter.requests_per_second)

\* The buckets clear_old_buckets is to remove.
Stale(max_age) ==
    {k \in DOMAIN limiter.buckets :
        limiter.buckets[k].reset_time < now - max_age * TicksPerSecond}

ClearStep ==
    (Evicts /\ evicted'.by = "clear_old_buckets") =>
        /\ DOMAIN limiter'.buckets = DOMAIN limiter.buckets \ Stale(evicted'.max_age)
        /\ \A k \in DOMAIN limiter'.buckets : limiter'.buckets[k] = limiter.buckets[k]
        /\ evicted'.returned = Cardinality(Stale(evicted'.max_age))
        /\ [limiter' EXCEPT !.buckets = <<>>] = [limiter EXCEPT !.buckets = <<>>]

\* C27: clear_old_buckets(max_age) removes exactly the buckets whose
\* reset_time is older than now - max_age, returns their number, and leaves
\* every other bucket, the caps and the adaptive counters as they were.
C27_BucketEviction == [][ClearStep]_vars

\* clear_old_buckets(3600) has removed a key's minute bucket whose window
\* ended over an hour ago and kept the minute bucket of another key.
C27_Witness ==
    /\ evicted.by = "clear_old_buckets"
    /\ evicted.max_age = max_age_seconds
    /\ \E k \in evicted.removed : k[2] = "main"
    /\ \E k \in DOMAIN limiter.buckets : k[2] = "main" /\ limiter.buckets[k].requests > 0
    /\ evicted.returned = Cardinality(evicted.removed)
    /\ limiter.error_count = 3

Passing == {i \in DOMAIN fetched.raw : fetched.raw[i].content # ""}

\* Whether the last call named a channel of a known server that is readable
\* over HTTP.
Reachable ==
    \E c \in servers : /\ c.server = fetched.server_name
                       /\ c.channel = fetched.channel_id
                       /\ c.http_accessible

\* C29: get_recent_messages returns exactly the payloads of the response that
\* pass validation, in ascending order of timestamp, skipping each payload
\* that fails without giving up the others; for an unknown server, an unknown
\* channel or a channel not readable over HTTP it makes no request and
\* returns the empty list.
C29_RecentPullResult ==
    fetched # NoFetch =>
        /\ fetched.requested <=> Reachable
        /\ ~fetched.requested => fetched.result = <<>>
        /\ fetched.how = "200" =>
              /\ Len(fetched.result) = Cardinality(Passing)
              /\ {fetched.result[k].n : k \in DOMAIN fetched.result} = Passing
              /\ \A k \in DOMAIN fetched.result :
                    fetched.result[k] = fetched.raw[fetched.result[k].n]
              /\ \A j, k \in DOMAIN fetched.result :
                    j < k => fetched.result[j].ts <= fetched.result[k].ts

\* A response of three payloads, newest first, whose middle one has no
\* content: the other two came back, oldest first.
C29_Witness ==
    /\ fetched.how = "200"
    /\ Len(fetched.raw) = 3
    /\ Passing = {1, 3}
    /\ fetched.raw[1].ts > fetched.raw[3].ts
    /\ Len(fetched.result) = 2
    /\ fetched.result[1].n = 3
    /\ fetched.result[2].n = 1

(***************************************************************************)
(* Claims about the initial backfill                                       *)
(***************************************************************************)
\* The channels the backfill is to pull: the channels readable over HTTP of
\* the ServerInfo objects whose status is ACTIVE.
ToBackfill ==
    {<<server_infos[i].server_name, c>> :
        <<i, c>> \in {p \in (DOMAIN server_infos) \X BackfillChannels :
                         /\ server_infos[p[1]].status = "active"
                         /\ server_infos[p[1]].channels[p[2]]}}

SuccessStep == feedback_run'.last = "record_success" /\ limiter' # limiter

\* C31: a record_success call that makes the success count since the last
\* reset exceed 100 while the error count is below 5 raises the multiplier
\* by 0.01, to at most 1.2, and sets both counters to 0; every other
\* record_success call adds 1 to the success count and leaves the multiplier
\* and the error count as they were.
C31_AdaptiveIncrease ==
    [][SuccessStep =>
          IF limiter.success_count + 1 > 100 /\ limiter.error_count < 5
          THEN /\ limiter'.adaptive_multiplier = Min(120, limiter.adaptive_multiplier + 1)
               /\ limiter'.success_count = 0
               /\ limiter'.error_count = 0
          ELSE /\ limiter'.success_count = limiter.success_count + 1
               /\ limiter'.adaptive_multiplier = limiter.adaptive_multiplier
               /\ limiter'.error_count = limiter.error_count]_vars

\* The multiplier has just been raised from 1.0 to 1.01 and the counters are
\* back at 0.
C31_Witness ==
    /\ feedback_run.last = "record_success"
    /\ limiter.adaptive_multiplier = 101
    /\ limiter.success_count = 0
    /\ limiter.error_count = 0

(***************************************************************************)
(* Claims about the configuration load                                     *)
(***************************************************************************)
\* The value a field has in the configuration: the configured one, or its
\* default when it is left out.
Configured ==
    [max_channels_per_server |->
        IF env.max_channels_per_server = None
        THEN default_max_channels_per_server ELSE env.max_channels_per_server,
     max_total_channels |->
        IF env.max_total_channels = None
        THEN default_max_total_channels ELSE env.max_total_channels,
     max_servers |->
        IF env.max_servers = None THEN default_max_servers ELSE env.max_servers]

ExceedsLimit ==
    Configured.max_total_channels >
        Configured.max_channels_per_server * Configured.max_servers

AllInRange ==
    /\ PerServerInRange(Configured.max_channels_per_server)
    /\ TotalInRange(Configured.max_total_channels)
    /\ ServersInRange(Configured.max_servers)

\* C35: a finished configuration load has rejected the configuration when
\* max_total_channels exceeds max_channels_per_server * max_servers, taken
\* with the values the configuration gives both factors, and has accepted it
\* when every field is in range and the limit is not exceeded.
C35_ChannelLimits ==
    settings.outcome # "none" =>
        /\ ExceedsLimit => settings.outcome = "rejected"
        /\ AllInRange /\ ~ExceedsLimit => settings.outcome = "loaded"

(***************************************************************************)
(* Claims about the frame of acquire                                       *)
(***************************************************************************)
\* The request count of a bucket, 0 for a bucket that does not exist.
BucketCount(l, k) == IF k \in DOMAIN l.buckets THEN l.buckets[k].requests ELSE 0

AcquireStep == acquires' = acquires + 1
Asked == last_acquire'.key
CurrentSecond == SecondKey(Asked, now \div TicksPerSecond)
\* Whether the key's minute bucket is missing or its window is over.
WindowOver ==
    \/ MainKey(Asked) \notin DOMAIN limiter.buckets
    \/ now >= limiter.buckets[MainKey(Asked)].reset_time

\* No bucket but the key's minute bucket and its bucket of the current
\* second is created or changed.
OthersUnchanged ==
    /\ DOMAIN limiter.buckets \subseteq DOMAIN limiter'.buckets
    /\ DOMAIN limiter'.buckets \subseteq
          DOMAIN limiter.buckets \cup {MainKey(Asked), CurrentSecond}
    /\ \A k \in DOMAIN limiter.buckets \ {MainKey(Asked), CurrentSecond} :
          limiter'.buckets[k] = limiter.buckets[k]

\* An acquire that returns False counts nothing.
RefusalCountsNothing ==
    ~last_acquire'.result =>
        /\ BucketCount(limiter', CurrentSecond) = BucketCount(limiter, CurrentSecond)
        /\ \/ BucketCount(limiter', MainKey(Asked)) = BucketCount(limiter, MainKey(Asked))
           \/ WindowOver /\ BucketCount(limiter', MainKey(Asked)) = 0

SecondCounted ==
    IF limiter.requests_per_second # None
    THEN BucketCount(limiter', CurrentSecond) = BucketCount(limiter, CurrentSecond) + 1
    ELSE CurrentSecond \notin DOMAIN limiter'.buckets

\* C39 as stated: an acquire that returns False increments no counter, and
\* one that returns True adds exactly 1 to the count of the key's minute
\* bucket and, with a per-second cap, to the count of the current second's
\* bucket, and leaves every other bucket unchanged.
C39_AcquireFrameAsStated ==
    [][AcquireStep =>
          /\ OthersUnchanged
          /\ RefusalCountsNothing
          /\ last_acquire'.result =>
                /\ BucketCount(limiter', MainKey(Asked)) = BucketCount(limiter, MainKey(Asked)) + 1
                /\ SecondCounted]_vars

\* C39: an acquire that returns False increments no counter; one that
\* returns True leaves the key's minute bucket with 1 more than it held, or
\* with exactly 1 when the bucket's window was over and the count restarted,
\* adds exactly 1 to the current second's bucket when a per-second cap is
\* configured, and leaves every other bucket unchanged.
C39_AcquireFrame ==
    [][AcquireStep =>
          /\ OthersUnchanged
          /\ RefusalCountsNothing
          /\ last_acquire'.result =>
                /\ BucketCount(limiter', MainKey(Asked)) =
                      (IF WindowOver THEN 0 ELSE BucketCount(limiter, MainKey(Asked))) + 1
                /\ SecondCounted]_vars

\* A granted acquire has restarted a minute bucket that had counted calls in
\* an earlier window, and a later acquire for the key was refused.
C39_Witness ==
    /\ Len(granted) >= 2
    /\ ~last_acquire.result
    /\ \E i \in DOMAIN granted :
          /\ granted[i].key = last_acquire.key
          /\ granted[i].at >= window_seconds * TicksPerSecond
          /\ \E j \in 1..(i - 1) : granted[j].key = last_acquire.key

(***************************************************************************)
(* Claims about the rotation index                                         *)
(***************************************************************************)
PullStep == Len(pulls') = Len(pulls) + 1
Selected == pulls'[Len(pulls')] # None

\* C40: once initialization has succeeded, current_token_index is at least 0
\* and below the number of valid sessions; a get_recent_messages call that
\* selects a session advances it by exactly 1 modulo the number of sessions,
\* and a call that returns before the selection leaves it as it was.
C40_RotationIndex ==
    /\ [](initialized = "ok" =>
             current_token_index >= 0 /\ current_token_index < Len(sessions))
    /\ [][PullStep =>
             IF Selected
             THEN current_token_index' = (current_token_index + 1) % Len(sessions)
             ELSE current_token_index' = current_token_index]_vars

\* Two sessions, the index back at 0 after both were selected, and a call
\* that returned early in between.
C40_Witness ==
    /\ Len(sessions) = 2
    /\ Len(pulls) = 3
    /\ pulls[1] # None /\ pulls[2] = None /\ pulls[3] # None
    /\ current_token_index = 0

(***************************************************************************)
(* Claims about the statistics counters                                    *)
(***************************************************************************)
\* A batch flush returns: a send_messages_batch call made by the batch loop
\* or by a _process_batch task hands its count back.
FlushReturns(i) ==
    /\ i \in DOMAIN batches
    /\ batches[i].caller # DirectCaller
    /\ batches[i].returned = Running
    /\ batches'[i].returned # Running

\* The daily reset of the cleanup loop.
DayRollover ==
    /\ wall_date > last_cleanup
    /\ last_cleanup' = wall_date
    /\ stats'.messages_processed_today = 0

\* C38: messages_processed_today never exceeds messages_processed_total;
\* messages_processed_total never decreases; messages_processed_today
\* decreases only in the cleanup loop's reset to 0 after the date has
\* changed; and a batch flush that returns adds the delivered count to both
\* counters and the rest of the batch size to errors_last_hour.
C38_CounterConsistency ==
    /\ [](stats.messages_processed_today <= stats.messages_processed_total)
    /\ [][/\ stats'.messages_processed_total >= stats.messages_processed_total
          /\ stats'.messages_processed_today < stats.messages_processed_today
                => DayRollover
          /\ \A i \in DOMAIN batches :
                FlushReturns(i) =>
                   LET delivered == batches'[i].returned
                       size == Len(batches[i].input)
                   IN  /\ stats'.messages_processed_today =
                              stats.messages_processed_today + delivered
                       /\ stats'.messages_processed_total =
                              stats.messages_processed_total + delivered
                       /\ stats'.errors_last_hour =
                              stats.errors_last_hour + (size - delivered)]_vars

\* After the daily reset a flush of two messages has delivered one of them,
\* and messages were counted before the reset.
C38_Witness ==
    /\ last_cleanup = 1
    /\ stats.messages_processed_today = 1
    /\ stats.messages_processed_total > 1
    /\ stats.errors_last_hour = 1
    /\ \E i \in DOMAIN batches :
          /\ batches[i].caller # DirectCaller
          /\ Len(batches[i].input) = 2
          /\ batches[i].returned = 1

(***************************************************************************)
(* Claims about repeated stop() calls                                      *)
(***************************************************************************)
\* The stop() calls that got past the running test.
Stopping == {s \in Stoppers : stops[s] \notin {"idle", "returned_early"}}
Occurrences(log, entry) == Cardinality({i \in DOMAIN log : log[i] = entry})

\* C36: of all stop() calls at most one gets past the running test, so the
\* tasks are cancelled and the source client's cleanup is run at most once,
\* and a stop() call that finds the orchestrator not running changes nothing
\* and cancels no task.
C36_StopIdempotent ==
    /\ [](/\ Cardinality(Stopping) <= 1
          /\ Occurrences(lifecycle_log, "cancel") <= 1
          /\ Occurrences(lifecycle_log, "source_cleanup") <= 1
          /\ Occurrences(lifecycle_log, "final_save") <= 1)
    /\ [][\A s \in Stoppers :
             stops[s] = "idle" /\ stops'[s] = "returned_early" =>
                UNCHANGED <<processor_initialized, processor_running, processor_tasks,
                            lifespan, starting, lifecycle_log>>]_vars

\* The signal handler's stop() has run the source client's cleanup, and the
\* stop() of the application shutdown found the orchestrator not running.
C36_Witness ==
    /\ stops["signal_handler"] \in {"sink_cleanup", "returned", "raised"}
    /\ stops["lifespan_finally"] = "returned_early"
    /\ Occurrences(lifecycle_log, "source_cleanup") = 1


(***************************************************************************)
(* Claims about the persistent blob                                        *)
(***************************************************************************)
FreshReady == fresh.pc = "ready"

\* C34: once the blob is in the store, a fresh sink client that initializes
\* from that store holds the topic map and the message mapping that were
\* saved; with no blob in the store its maps are empty and it is ready all
\* the same; and the send that triggered a save returns True whatever the
\* store did with the write.
C34_PersistenceRoundTrip ==
    /\ FreshReady /\ fresh.found.kind = "json" =>
          /\ fresh.server_topics = writer.server_topics
          /\ fresh.message_mappings = writer.message_mappings
    /\ FreshReady /\ fresh.found.kind = "none" =>
          /\ fresh.server_topics = <<>>
          /\ fresh.message_mappings = <<>>
    /\ writer.last.how # "none" => writer.last.send_result


(***************************************************************************)
(* Claims about discovery and the guild records                            *)
(***************************************************************************)
HasAccessible(info) == \E c \in DOMAIN info.channels : is_accessible(info.channels[c])
StatusAgrees(info) == info.status = IF HasAccessible(info) THEN "active" ELSE "inactive"

\* C32: a ServerInfo that discovery has populated, and one on which
\* update_stats was called, has status ACTIVE when one of its channels is
\* accessible over HTTP or the stream, and INACTIVE when none is.
C32_GuildStatus ==
    /\ \A g \in DOMAIN discovery.populated : StatusAgrees(discovery.populated[g])
    /\ record.call = "update_stats" => StatusAgrees(record.info)

WithinLimit(info) == Cardinality(DOMAIN info.channels) <= info.max_channels
Refused == record.call = "add_channel" /\ at_limit(record.before)

\* C33: every ServerInfo holds at most max_channels channels: the one the
\* methods are called on, the one under construction in _process_guild, the
\* ones a _process_guild completed (at most max_channels_per_server each) and
\* the ones in the servers map; and add_channel on a ServerInfo that
\* already holds max_channels channels returns False and leaves its channels
\* as they were.
C33_ChannelCap ==
    /\ WithinLimit(record.info)
    /\ WithinLimit(discovery.server_info)
    /\ \A g \in DOMAIN discovery.populated :
          /\ WithinLimit(discovery.populated[g])
          /\ Cardinality(DOMAIN discovery.populated[g].channels)
                <= discovery.max_channels_per_server
    /\ \A g \in DOMAIN server_map : WithinLimit(server_map[g])
    /\ Refused => ~record.returned /\ record.info.channels = record.before.channels

\* An add_channel call on a full ServerInfo has returned.
C33_Witness == Refused /\ ~record.returned /\ record.calls = MaxCalls

====
